---- MODULE Spec2Model ----
(***************************************************************************)
(* A model of the music agent: the knowledge store (MusicDatabase in       *)
(* music_agent.py), the background poller and the socket server            *)
(* (MusicDaemon in music_daemon.py).                                       *)
(*                                                                         *)
(* Text is a sequence of one-character strings, so that SQL's LOWER and    *)
(* LIKE, Python's split and the f-string change key are computed the way   *)
(* the code computes them.  Every table is the sequence of its rows in     *)
(* rowid order.  A store call takes an input ok: FALSE is the call's       *)
(* except branch (sqlite3 raised: the transaction is rolled back).         *)
(***************************************************************************)
EXTENDS Integers, Sequences, FiniteSets, TLC

VARIABLES
    tags,               \* table tags
    firstInserted,      \* history: the tag keys in the order of their first insertion
    lastWrite,          \* history: per tag key, <<what the last add_tag that returned True wrote>>
    tagAdd,             \* the last add_tag call: whether the store raised, its return value
    tagQuery,           \* the arguments of the last get_entities_by_tag call
    tagResult,          \* the list that call returned
    favorite_artists,   \* table favorite_artists
    play_history,       \* table play_history
    favAdd,             \* the last add_favorite_artist call
    addedNames,         \* history: the names of the add_favorite_artist calls that did not raise
    playlists,          \* table playlists
    playlistSeq,        \* sqlite_sequence of playlists (AUTOINCREMENT)
    plQuery,            \* the arguments of the last find_playlist_by_name call
    plResult,           \* what it returned: <<row>>, or <<>> for None
    running,            \* MusicDaemon.running
    last_known_track,   \* MusicDaemon.last_known_track: <<dict>>, or <<>> for None
    pollEarlier,        \* history: <<what the poll cycle two before the last one observed>>
    pollPrev,           \* history: <<what the poll cycle before the last one observed>>
    pollCur,            \* history: <<what the last poll cycle observed>>
    pollTriggered,      \* history: whether the last poll cycle called _analyze_current_music
    pollWrites,         \* history: the number of add_tag and log_play_history calls of the last poll cycle
    pollQueried,        \* the poller's local current: <<dict>> between its query and the end of the pass
    pollAfterStop,      \* history: the poller has enriched a track after stop() had returned
    cpc,                \* per connection: where its client is in send_command
    pc,                 \* per connection: where its _handle_client thread is
    requests,           \* history, per connection: the commands the client sent, in order
    inbuf,              \* per connection: bytes sent and not yet received, as runs <<request, from, to>>
    response,           \* per handler: its local response, <<dict>>, or <<>> when it has none to send
    outbox,             \* history, per connection: what was sent to its client, in order
    reply,              \* per connection: <<what send_command returned>>, or <<>> before it returns
    likeLog,            \* history: the last two 'like this' commands, oldest first
    cmd,                \* history: the last handle_command call, what it did and returned
    routed,             \* history: the last request a handler routed, and its response
    playCall,           \* the call of play_track in progress or returned, and what it has done
    endpoint,           \* the socket path: <<>> when absent, <<i>> when it names the socket instance i bound
    at,                 \* per daemon process: where it is between main and its exit
    flag,               \* per daemon process: its MusicDaemon.running
    listening,          \* per daemon process: its self.sock is bound, listening and open
    sawStale,           \* history, per daemon process: <<the daemons killed before>> its is_running was refused
    storeOpened,        \* history, per daemon process: <<whether sqlite3 could open its store>>, <<>> before
    lastProbe,          \* history: the last is_running that returned: by whom, what, which daemons had stopped
    playlist_tracks,    \* table playlist_tracks as committed: the set of its rows (no query reads their rowid order)
    txn,                \* <<the open write transaction of store_playlist_tracks>>, or <<>>
    trackCall,          \* history: the last store_playlist_tracks that returned
    complete,           \* history: pairs <<playlist rowid, the track ids of the last listing committed for it>>
    musical_relationships, \* table musical_relationships: its rows in rowid order
    relAdd,             \* history: the last add_relationship call and what it returned
    relQuery,           \* history: the get_relationships_for_entity that returned since the last add_relationship
    trackRead           \* history: the get_playlist_tracks that returned since the last step of a writer

storeVars == <<tags, firstInserted, lastWrite, tagAdd, tagQuery, tagResult>>
favVars == <<favorite_artists, play_history, favAdd, addedNames>>
playlistVars == <<playlists, playlistSeq, plQuery, plResult>>
pollerVars ==
    <<last_known_track, pollEarlier, pollPrev, pollCur, pollTriggered, pollWrites,
      pollQueried, pollAfterStop>>
ipcVars == <<cpc, pc, requests, inbuf, response, outbox, reply>>
commandVars == <<likeLog, cmd, routed, playCall>>
lifecycleVars == <<endpoint, at, flag, listening, sawStale, lastProbe, storeOpened>>
trackVars == <<playlist_tracks, txn, trackCall, complete, trackRead>>
relationshipVars == <<musical_relationships, relAdd, relQuery>>
dataVars == <<trackVars, relationshipVars>>
restVars == <<commandVars, lifecycleVars, dataVars>>
vars == <<storeVars, favVars, playlistVars, running, pollerVars, ipcVars, restVars>>

None == "None"

-----------------------------------------------------------------------------
(* Text *)

\* SQLite's LOWER() and LIKE fold the ASCII letters only.
LowerChar(c) ==
    CASE c = "A" -> "a"
      [] c = "B" -> "b"
      [] c = "C" -> "c"
      [] c = "F" -> "f"
      [] c = "L" -> "l"
      [] c = "Z" -> "z"
      [] OTHER -> c

Lower(s) == [i \in 1..Len(s) |-> LowerChar(s[i])]

\* f'%{text}%': the LIKE pattern the code builds from its argument, unescaped.
Wrap(s) == <<"%">> \o s \o <<"%">>

\* SQLite's  text LIKE pattern  (no ESCAPE): % is any run of characters, _ is any
\* one character, a letter matches itself in either case.
RECURSIVE Like(_, _)
Like(text, pattern) ==
    IF pattern = <<>> THEN text = <<>>
    ELSE IF Head(pattern) = "%"
         THEN Like(text, Tail(pattern)) \/ (text # <<>> /\ Like(Tail(text), pattern))
         ELSE /\ text # <<>>
              /\ (Head(pattern) = "_" \/ LowerChar(Head(pattern)) = LowerChar(Head(text)))
              /\ Like(Tail(text), Tail(pattern))

\* q is a substring of s, case-insensitively (what the specification of the lookups says).
Contains(s, q) ==
    \E i \in 1..(Len(s) + 1) :
        /\ i + Len(q) - 1 <= Len(s)
        /\ Lower(SubSeq(s, i, i + Len(q) - 1)) = Lower(q)

\* The elements of a sequence, the sequences that list a set once each, and the
\* place of an element.
Range(s) == {s[i] : i \in 1..Len(s)}
Orderings(S) == {s \in [1..Cardinality(S) -> S] : Range(s) = S}
Position(s, x) == CHOOSE n \in 1..Len(s) : s[n] = x

\* The characters of the model in the order of their codes: collation BINARY
\* compares text by memcmp.
Ascii == <<"%", "-", "A", "B", "C", "F", "L", "Z", "_", "a", "b", "c", "d", "e", "f", "l",
           "x", "|">>

RECURSIVE BinaryLess(_, _)
BinaryLess(a, b) ==
    IF b = <<>> THEN FALSE
    ELSE IF a = <<>> THEN TRUE
    ELSE IF Head(a) = Head(b) THEN BinaryLess(Tail(a), Tail(b))
    ELSE Position(Ascii, Head(a)) < Position(Ascii, Head(b))

-----------------------------------------------------------------------------
(* Table tags: add_tag, get_entities_by_tag *)

\* Bound: the number of tag rows.
MaxTags == 2

EntityTypes == {"artist", "track"}
EntityNames == {<<"Z", "e", "d">>, <<"A", "l", "f">>}
TagCategories == {"mood", "genre"}
\* the (tag_category, tag_value) pairs add_tag is called with: lo-fi, LO_FI
TagLabels == {<<"mood", <<"l", "-", "f">>>>, <<"mood", <<"L", "_", "F">>>>,
              <<"genre", <<"l", "-", "f">>>>}
TagQueries == {<<"l", "_", "f">>, <<"x">>}
\* confidence, in tenths, with the provenance it is written with
TagWrites == {[confidence |-> 10, added_by |-> "user"], [confidence |-> 9, added_by |-> "api"]}

\* UNIQUE(entity_type, entity_name, tag_category, tag_value), collation BINARY
TagKey(r) == <<r.entity_type, r.entity_name, r.tag_category, r.tag_value>>

\* What the player reports as the track and the artist, <<track, artist>>.
PlayerArtists == {<<"c">>, <<"b", "-", "c">>}
PlayerPairs ==
    {<<<<"a">>, <<"c">>>>, <<<<"a", "-", "b">>, <<"c">>>>, <<<<"a">>, <<"b", "-", "c">>>>}
\* What the catalog reports as the genres of an artist (artist_info['genres']); none
\* also when the client is not set up or the search finds no track.
GenreLists == {<<>>, <<<<"l", "-", "f">>, <<"x">>>>}

TagKeys ==
    {<<et, en, l[1], l[2]>> : et \in EntityTypes, en \in EntityNames, l \in TagLabels}
    \cup {<<"artist", a, "genre", g>> : a \in PlayerArtists, g \in {<<"l", "-", "f">>, <<"x">>}}

\* A plain INSERT: the row is added whether or not its key is stored.
InsertTagPlain(rows, r) == Append(rows, r)

\* INSERT OR IGNORE: a stored key keeps its row.
InsertTagOrIgnore(rows, r) ==
    IF \E i \in 1..Len(rows) : TagKey(rows[i]) = TagKey(r) THEN rows ELSE Append(rows, r)

\* INSERT OR REPLACE INTO tags: the row of the same key is deleted and the new row is
\* inserted with a fresh rowid, that is, at the end.
InsertOrReplaceTag(rows, r) ==
    Append(SelectSeq(rows, LAMBDA x : TagKey(x) # TagKey(r)), r)

NoCall == [op |-> "none"]

add_tag(entity_type, entity_name, tag_category, tag_value, w, ok) ==
    LET r == [entity_type |-> entity_type, entity_name |-> entity_name,
              tag_category |-> tag_category, tag_value |-> tag_value,
              confidence |-> w.confidence, added_by |-> w.added_by]
        stored == \E i \in 1..Len(tags) : TagKey(tags[i]) = TagKey(r)
    IN  /\ stored \/ Len(tags) < MaxTags
        /\ tags' = IF ok THEN InsertOrReplaceTag(tags, r) ELSE tags
        /\ firstInserted' = IF ok /\ TagKey(r) \notin Range(firstInserted)
                            THEN Append(firstInserted, TagKey(r))
                            ELSE firstInserted
        /\ lastWrite' = IF ok THEN [lastWrite EXCEPT ![TagKey(r)] = <<w>>] ELSE lastWrite
        /\ tagAdd' = [op |-> "add_tag", ok |-> ok, result |-> ok]
        /\ tagQuery' = NoCall
        /\ tagResult' = <<>>

AddTag ==
    /\ \E et \in EntityTypes, en \in EntityNames, l \in TagLabels,
          w \in TagWrites, ok \in BOOLEAN :
            add_tag(et, en, l[1], l[2], w, ok)
    /\ UNCHANGED <<favVars, playlistVars, running, pollerVars, ipcVars, restVars>>

\* WHERE tag_category = ? AND tag_value LIKE ? [AND entity_type = ?]
TagSelected(r, tag_category, tag_value, entity_type) ==
    /\ r.tag_category = tag_category
    /\ Like(r.tag_value, Wrap(tag_value))
    /\ (entity_type # None => r.entity_type = entity_type)

\* The order in which SQLite reads the selected rows.  The statement names no order
\* but confidence; SQLite (3.40: EXPLAIN QUERY PLAN) runs the query with entity_type
\* as a SEARCH of the index of the UNIQUE constraint on entity_type = ?, which yields
\* the rows in the order of (entity_name, tag_category, tag_value), and the query
\* without it as a SCAN of the table, which yields them in rowid order.
ScannedBefore(rows, r1, r2, entity_type) ==
    IF entity_type # None
    THEN \/ BinaryLess(r1.entity_name, r2.entity_name)
         \/ r1.entity_name = r2.entity_name /\ BinaryLess(r1.tag_value, r2.tag_value)
    ELSE Position(rows, r1) < Position(rows, r2)

\* ORDER BY confidence DESC, by a sorter that keeps rows of equal confidence in the
\* order read.
ReturnedBefore(rows, r1, r2, entity_type) ==
    \/ r1.confidence > r2.confidence
    \/ r1.confidence = r2.confidence /\ ScannedBefore(rows, r1, r2, entity_type)

\* The dict the list comprehension makes of a row (entity_id, a column the model
\* leaves out, aside): entity_type is the row's, or the argument when one is given.
EntityOfRow(r, entity_type) ==
    [entity_name |-> r.entity_name,
     entity_type |-> IF entity_type # None THEN entity_type ELSE r.entity_type,
     confidence |-> r.confidence]

\* The list get_entities_by_tag returns: the selected rows, in order.
SelectEntitiesByTag(rows, tag_category, tag_value, entity_type) ==
    LET hit == {r \in Range(rows) : TagSelected(r, tag_category, tag_value, entity_type)}
        s == CHOOSE o \in Orderings(hit) :
                \A i, j \in 1..Len(o) : i < j => ReturnedBefore(rows, o[i], o[j], entity_type)
    IN  [i \in 1..Len(s) |-> EntityOfRow(s[i], entity_type)]

get_entities_by_tag(tag_category, tag_value, entity_type, ok) ==
        /\ tagQuery' = [op |-> "get_entities_by_tag", tag_category |-> tag_category,
                        tag_value |-> tag_value, entity_type |-> entity_type, ok |-> ok]
        /\ tagResult' = IF ok
                        THEN SelectEntitiesByTag(tags, tag_category, tag_value, entity_type)
                        ELSE <<>>
        /\ tagAdd' = NoCall
        /\ UNCHANGED <<tags, firstInserted, lastWrite>>

GetEntitiesByTag ==
    /\ \E cat \in TagCategories, q \in TagQueries, et \in EntityTypes \cup {None},
          ok \in BOOLEAN :
            get_entities_by_tag(cat, q, et, ok)
    /\ UNCHANGED <<favVars, playlistVars, running, pollerVars, ipcVars, restVars>>

InitTags ==
    /\ tags = <<>>
    /\ firstInserted = <<>>
    /\ lastWrite = [k \in TagKeys |-> <<>>]
    /\ tagAdd = NoCall
    /\ tagQuery = NoCall
    /\ tagResult = <<>>

-----------------------------------------------------------------------------
(* Tables favorite_artists and play_history: add_favorite_artist, log_play_history *)

\* Bound: the number of play_history rows.
MaxHistory == 2

\* artist_name TEXT UNIQUE, collation BINARY: names that differ in case are two names.
ArtistNames == {<<"Nine Inch Nails">>, <<"nine inch nails">>, <<"Radiohead">>}
TrackNames == {"Hurt", "Creep"}

IsFavorite(rows, artist_name) == \E i \in 1..Len(rows) : rows[i].artist_name = artist_name

\* A plain INSERT into favorite_artists.
InsertFavoritePlain(rows, artist_name) ==
    Append(rows, [artist_name |-> artist_name, play_count |-> 0])

\* INSERT OR IGNORE INTO favorite_artists (artist_name, added_date): play_count
\* takes its DEFAULT 0; a stored name keeps its row.
InsertOrIgnoreFavorite(rows, artist_name) ==
    IF IsFavorite(rows, artist_name)
    THEN rows
    ELSE Append(rows, [artist_name |-> artist_name, play_count |-> 0])

\* return cursor.rowcount > 0, and False from the except branch
AddFavoriteResult(before, after, ok) == ok /\ Len(after) > Len(before)

add_favorite_artist(artist_name, ok) ==
    LET after == IF ok THEN InsertOrIgnoreFavorite(favorite_artists, artist_name)
                 ELSE favorite_artists
    IN  /\ favorite_artists' = after
        /\ favAdd' = [op |-> "add_favorite_artist", artist_name |-> artist_name, ok |-> ok,
                      earlier_add |-> artist_name \in addedNames,
                      result |-> AddFavoriteResult(favorite_artists, after, ok)]
        /\ addedNames' = IF ok THEN addedNames \cup {artist_name} ELSE addedNames
        /\ UNCHANGED play_history

AddFavoriteArtist ==
    /\ \E a \in ArtistNames, ok \in BOOLEAN : add_favorite_artist(a, ok)
    /\ UNCHANGED <<storeVars, playlistVars, running, pollerVars, ipcVars, restVars>>

\* UPDATE favorite_artists SET play_count = play_count + 1 (the WHERE clause lost).
IncrementAllPlayCounts(rows, artist_name) ==
    [i \in 1..Len(rows) |-> [rows[i] EXCEPT !.play_count = @ + 1]]

\* UPDATE favorite_artists SET play_count = play_count + 1 WHERE artist_name = ?
IncrementPlayCount(rows, artist_name) ==
    [i \in 1..Len(rows) |->
        IF rows[i].artist_name = artist_name
        THEN [rows[i] EXCEPT !.play_count = @ + 1]
        ELSE rows[i]]

\* The INSERT and the UPDATE are one transaction: both are committed, or neither.
log_play_history(track_name, artist_name, ok) ==
    /\ Len(play_history) < MaxHistory
    /\ play_history' = IF ok
                       THEN Append(play_history,
                                   [track_name |-> track_name, artist_name |-> artist_name])
                       ELSE play_history
    /\ favorite_artists' = IF ok THEN IncrementPlayCount(favorite_artists, artist_name)
                           ELSE favorite_artists
    /\ favAdd' = NoCall
    /\ UNCHANGED addedNames

LogPlayHistory ==
    /\ \E t \in TrackNames, a \in ArtistNames, ok \in BOOLEAN : log_play_history(t, a, ok)
    /\ UNCHANGED <<storeVars, playlistVars, running, pollerVars, ipcVars, restVars>>

InitFavorites ==
    /\ favorite_artists = <<>>
    /\ play_history = <<>>
    /\ favAdd = NoCall
    /\ addedNames = {}

-----------------------------------------------------------------------------
(* Table playlists: store_playlist, find_playlist_by_name *)

\* Bound: the rowids store_playlist hands out.
MaxPlaylistId == 3

SpotifyIds == {"sp1", "sp2"}
PlaylistNames == {<<"a", "b">>, <<"A", "B", "c">>, <<"a", "_", "c">>}
PlaylistQueries == {<<"a", "b">>, <<"a", "_">>, <<"b", "c">>, <<"x">>}

\* INSERT OR REPLACE INTO playlists: UNIQUE(spotify_id); the replaced row is deleted
\* and the new one takes the next AUTOINCREMENT id.
InsertOrReplacePlaylist(rows, id, spotify_id, name) ==
    Append(SelectSeq(rows, LAMBDA x : x.spotify_id # spotify_id),
           [id |-> id, spotify_id |-> spotify_id, name |-> name])

store_playlist(spotify_id, name, ok) ==
    /\ playlistSeq < MaxPlaylistId
    /\ IF ok
       THEN /\ playlists' = InsertOrReplacePlaylist(playlists, playlistSeq + 1, spotify_id, name)
            /\ playlistSeq' = playlistSeq + 1
       ELSE UNCHANGED <<playlists, playlistSeq>>
    /\ plQuery' = NoCall
    /\ plResult' = <<>>

StorePlaylist ==
    /\ \E sid \in SpotifyIds, n \in PlaylistNames, ok \in BOOLEAN : store_playlist(sid, n, ok)
    /\ UNCHANGED <<storeVars, favVars, running, pollerVars, ipcVars, restVars>>

\* WHERE LOWER(name) = LOWER(?)
ExactMatches(rows, name) == {r \in Range(rows) : Lower(r.name) = Lower(name)}

\* WHERE LOWER(name) LIKE LOWER(?), with the argument f'%{name}%'
FuzzyMatches(rows, name) == {r \in Range(rows) : Like(Lower(r.name), Lower(Wrap(name)))}

\* ORDER BY LENGTH(name) LIMIT 1: a row of the least length (SQL does not say which).
ShortestOf(S) == {r \in S : \A o \in S : Len(r.name) <= Len(o.name)}

\* What find_playlist_by_name may return: LIMIT 1 takes one of the rows.
FindPlaylistResults(rows, name, fuzzy) ==
    IF ExactMatches(rows, name) # {}
    THEN {<<r>> : r \in ExactMatches(rows, name)}
    ELSE IF fuzzy /\ FuzzyMatches(rows, name) # {}
         THEN {<<r>> : r \in ShortestOf(FuzzyMatches(rows, name))}
         ELSE {<<>>}

find_playlist_by_name(name, fuzzy, ok) ==
    /\ plQuery' = [op |-> "find_playlist_by_name", name |-> name, fuzzy |-> fuzzy, ok |-> ok]
    /\ IF ok
       THEN plResult' \in FindPlaylistResults(playlists, name, fuzzy)
       ELSE plResult' = <<>>
    /\ UNCHANGED <<playlists, playlistSeq>>

FindPlaylistByName ==
    /\ \E n \in PlaylistQueries, fuzzy \in BOOLEAN, ok \in BOOLEAN :
          find_playlist_by_name(n, fuzzy, ok)
    /\ UNCHANGED <<storeVars, favVars, running, pollerVars, ipcVars, restVars>>

InitPlaylists ==
    /\ playlists = <<>>
    /\ playlistSeq = 0
    /\ plQuery = NoCall
    /\ plResult = <<>>

-----------------------------------------------------------------------------
(* The background poller: get_current_track, _polling_loop, _has_track_changed,
   _handle_track_change, _analyze_current_music *)

\* What osascript prints, as get_current_track gets it from run_applescript: the
\* text "Not playing", a text that starts with the error mark, or
\* trackName & " | " & artistName.  "Not playing", the mark and " | " are one
\* character of the model each.
NotPlayingText == <<"Not playing">>
ErrorText == <<"X", "timeout">>
Separator == "|"
ScriptOutputs ==
    {NotPlayingText, ErrorText}
    \cup {p[1] \o <<Separator>> \o p[2] : p \in PlayerPairs}

\* result.split(" | ")
RECURSIVE Split(_)
Split(text) ==
    IF \A i \in 1..Len(text) : text[i] # Separator THEN <<text>>
    ELSE LET n == CHOOSE i \in 1..Len(text) :
                      text[i] = Separator /\ \A k \in 1..(i - 1) : text[k] # Separator
         IN  <<SubSeq(text, 1, n - 1)>> \o Split(SubSeq(text, n + 1, Len(text)))

PlayingStatus == <<"playing">>

\* get_current_track, given what run_applescript returned
get_current_track(result) ==
    IF "Not playing" \in Range(result) \/ "X" \in Range(result)
    THEN [status |-> result]
    ELSE LET parts == Split(result)
         IN  IF Len(parts) >= 2
             THEN [name |-> parts[1], artist |-> parts[2], status |-> PlayingStatus]
             ELSE [status |-> <<"Error parsing track info">>]

\* dict.get(key, default)
Get(d, key, default) == IF key \in DOMAIN d THEN d[key] ELSE default

\* f"{name}-{artist}"
ChangeKey(track) == Get(track, "name", <<>>) \o <<"-">> \o Get(track, "artist", <<>>)

\* _has_track_changed without the comparison of the keys.
HasTrackChangedWhenPlaying(current_track, last) ==
    current_track.status = PlayingStatus

\* _has_track_changed(current_track), with self.last_known_track = last
HasTrackChanged(current_track, last) ==
    IF current_track.status # PlayingStatus THEN FALSE
    ELSE IF last = <<>> \/ last[1].status # PlayingStatus THEN TRUE
    ELSE ChangeKey(current_track) # ChangeKey(last[1])

\* The add_tag calls of _analyze_current_music: genre i (from 0) of the first three,
\* with confidence 1.0 - i * 0.1, for the artist; oks[i] is whether call i commits.
RECURSIVE AutoTag(_, _, _, _, _)
AutoTag(rows, artist_name, genres, oks, i) ==
    IF i > Len(genres) \/ i > 3 THEN rows
    ELSE LET r == [entity_type |-> "artist", entity_name |-> artist_name,
                   tag_category |-> "genre", tag_value |-> genres[i],
                   confidence |-> 10 - (i - 1), added_by |-> "api"]
         IN  AutoTag(IF oks[i] THEN InsertOrReplaceTag(rows, r) ELSE rows,
                     artist_name, genres, oks, i + 1)

\* A loop that ends after a pass whose query met an error of the player.
LoopTestUntilError(is_running, last) ==
    is_running /\ (IF last = <<>> THEN TRUE
                   ELSE last[1].status \in {PlayingStatus, NotPlayingText})

\* while self.running and self.auto_sync_enabled (which nothing clears): the test
\* does not look at the pass before, whose track is last.
LoopTest(is_running, last) == is_running

\* _polling_loop, the test of the loop and the query of a pass: result is what the
\* player prints.
PollQuery ==
    /\ LoopTest(running, last_known_track)
    /\ pollQueried = <<>>
    /\ \E result \in ScriptOutputs : pollQueried' = <<get_current_track(result)>>
    /\ UNCHANGED <<last_known_track, pollEarlier, pollPrev, pollCur, pollTriggered, pollWrites,
                   pollAfterStop>>
    /\ UNCHANGED <<running, storeVars, favVars, playlistVars, ipcVars, restVars>>

\* The sets of add_tag calls that commit: all of an enrichment, or none.
TagOutcomes == {[i \in 1..2 |-> b] : b \in BOOLEAN}

\* The rest of the pass, which nothing interrupts: _has_track_changed,
\* _handle_track_change, self.last_known_track = current.  genres is what the
\* catalog reports for the artist.  _handle_track_change catches what the analysis
\* raises, and nothing else in the pass raises.
PollCycle ==
    /\ pollQueried # <<>>
    /\ pollQueried' = <<>>
    /\ \E genres \in GenreLists, oks \in TagOutcomes :
       \E current \in {pollQueried[1]} :
       \E changed \in {HasTrackChanged(current, last_known_track)} :
       \E writes \in {IF changed THEN Len(genres) ELSE 0} :
       \E after \in {IF changed THEN AutoTag(tags, current.artist, genres, oks, 1)
                     ELSE tags} :
              /\ (~changed => genres = <<>>)
              /\ (\A i \in 1..2 : i > writes => oks[i])
              /\ tags' = after
              /\ firstInserted' =
                    firstInserted \o
                    SelectSeq([i \in 1..Len(after) |-> TagKey(after[i])],
                              LAMBDA k : k \notin Range(firstInserted))
              /\ lastWrite' =
                    [k \in TagKeys |->
                        IF \E i \in 1..writes :
                              oks[i] /\ k = <<"artist", current.artist, "genre", genres[i]>>
                        THEN LET i == CHOOSE i \in 1..writes :
                                     oks[i] /\ k = <<"artist", current.artist, "genre", genres[i]>>
                             IN  <<[confidence |-> 10 - (i - 1), added_by |-> "api"]>>
                        ELSE lastWrite[k]]
              /\ pollEarlier' = pollPrev
              /\ pollPrev' = pollCur
              /\ pollCur' = <<current>>
              /\ pollTriggered' = changed
              /\ pollWrites' = writes
              /\ last_known_track' = <<current>>
              /\ pollAfterStop' = (pollAfterStop \/ (~running /\ changed))
    /\ UNCHANGED <<running, tagAdd, tagQuery, tagResult, favVars, playlistVars, ipcVars, restVars>>

\* stop(): self.running = False; the loop of _polling_loop ends at its next test.
Stop ==
    /\ running
    /\ running' = FALSE
    /\ UNCHANGED <<pollerVars, storeVars, favVars, playlistVars, ipcVars, restVars>>

InitPoller ==
    /\ running = TRUE   \* start() has set it
    /\ last_known_track = <<>>
    /\ pollEarlier = <<>>
    /\ pollPrev = <<>>
    /\ pollCur = <<>>
    /\ pollTriggered = FALSE
    /\ pollWrites = 0
    /\ pollQueried = <<>>
    /\ pollAfterStop = FALSE

-----------------------------------------------------------------------------
(* The IPC server and its clients: start (accept loop), _handle_client,
   _get_status, _handle_music_command, MusicClient.send_command *)

NumClients == 2
Conns == 1..NumClients

\* client_socket.recv(4096)
RecvBufSize == 4096
\* The characters json.dumps({'command': command}) puts around the command.
EnvelopeOverhead == 15
\* The free text a long command carries after its first words.
LongPad == 4096

\* A command is its first words and the number of characters of free text after them.
CommandTexts == {"ping", "status", "shutdown", "music:what's playing", "bogus"}
Commands ==
    {[text |-> t, pad |-> 0] : t \in CommandTexts}
    \cup {[text |-> "music:what's playing", pad |-> LongPad]}

TextLength(t) ==
    CASE t = "ping" -> 4
      [] t = "status" -> 6
      [] t = "shutdown" -> 8
      [] t = "music:what's playing" -> 20
      [] t = "music:like this" -> 15
      [] t = "bogus" -> 5

\* len(json.dumps({'command': command}).encode('utf-8'))
EnvelopeLength(command) == EnvelopeOverhead + TextLength(command.text) + command.pad

RunLength(run) == run[3] - run[2] + 1

\* the first n bytes of buf
RECURSIVE Take(_, _)
Take(buf, n) ==
    IF n = 0 \/ buf = <<>> THEN <<>>
    ELSE IF RunLength(Head(buf)) <= n
         THEN <<Head(buf)>> \o Take(Tail(buf), n - RunLength(Head(buf)))
         ELSE <<<<Head(buf)[1], Head(buf)[2], Head(buf)[2] + n - 1>>>>

\* buf without its first n bytes
RECURSIVE Drop(_, _)
Drop(buf, n) ==
    IF n = 0 \/ buf = <<>> THEN buf
    ELSE IF RunLength(Head(buf)) <= n
         THEN Drop(Tail(buf), n - RunLength(Head(buf)))
         ELSE <<<<Head(buf)[1], Head(buf)[2] + n, Head(buf)[3]>>>> \o Tail(buf)

\* json.loads(data.decode('utf-8')) in _handle_client: <<the number of the request>>
\* when data is the whole of one envelope and nothing else, <<>> for
\* json.JSONDecodeError.
Loads(data, sent) ==
    IF /\ Len(data) = 1
       /\ data[1][2] = 1
       /\ data[1][3] = EnvelopeLength(sent[data[1][1]])
    THEN <<data[1][1]>>
    ELSE <<>>

Pong == [status |-> "success", message |-> <<"pong">>]
InvalidJson == [status |-> "error", message |-> <<"Invalid JSON">>]
\* what send_command returns from its except
ClientError == [status |-> "error", message |-> <<"str(e)">>]
\* what _handle_client sends from its 'except Exception as e'
HandlerError == [status |-> "error", message |-> <<"str(e)">>]

\* What the player prints when a handler asks.
StatusOutputs == {NotPlayingText, <<"a", Separator, "c">>}

\* _get_status(); the timestamp and the paths are left out
GetStatus(current_track) ==
    [status |-> "success", daemon_running |-> running, music_agent_ready |-> TRUE,
     current_track |-> current_track]

\* handle_command(command) for a command with "what's playing" in it
WhatsPlaying(current) ==
    IF current.status = PlayingStatus
    THEN <<"Now playing: ", current.name, " by ", current.artist>>
    ELSE <<"i ">> \o current.status

\* _handle_music_command(command); ok is whether handle_command returns
HandleMusicCommand(current, ok) ==
    IF ok THEN [status |-> "success", message |-> WhatsPlaying(current)]
    ELSE [status |-> "error", message |-> <<"str(e)">>]

\* The branches of _handle_client on the command of a parsed envelope.
ProcessCommand(command, current, ok) ==
    IF command.text = "ping" /\ command.pad = 0 THEN Pong
    ELSE IF command.text = "status" /\ command.pad = 0 THEN GetStatus(current)
    ELSE IF command.text = "shutdown" /\ command.pad = 0
         THEN [status |-> "success", message |-> <<"shutting down">>]
    ELSE IF command.text = "music:what's playing" THEN HandleMusicCommand(current, ok)
    ELSE [status |-> "error", message |-> <<"Unknown command: ", command>>]

\* A socket every handler would send on.
SharedSocket(c) == 1

\* The client_socket of the handler of connection c: the one accept() returned for it.
client_socket(c) == c

\* The client of c has connected and has not closed its socket.
ClientOpen(c) == cpc[c] \in {"connected", "sent"}

\* The daemon end of c is gone: its handler closed it, or the listener was closed
\* before the connection was accepted.
ServerGone(c) == pc[c] = "closed" \/ (pc[c] = "none" /\ ~running)

\* send_command: sock.connect(self.socket_path), which raises once stop() has closed
\* the listener and removed the socket file.
Connect(c) ==
    /\ cpc[c] = "start"
    /\ IF running
       THEN cpc' = [cpc EXCEPT ![c] = "connected"] /\ UNCHANGED reply
       ELSE /\ cpc' = [cpc EXCEPT ![c] = "done"]
            /\ reply' = [reply EXCEPT ![c] = <<ClientError>>]
    /\ UNCHANGED <<pc, requests, inbuf, response, outbox, running,
                   storeVars, favVars, playlistVars, pollerVars, restVars>>

\* self.sock.accept() and the start of the thread that runs _handle_client
Accept(c) ==
    /\ running
    /\ cpc[c] # "start"
    /\ pc[c] = "none"
    /\ pc' = [pc EXCEPT ![c] = "recv"]
    /\ UNCHANGED <<cpc, requests, inbuf, response, outbox, reply, running,
                   storeVars, favVars, playlistVars, pollerVars, restVars>>

\* send_command: sock.send(json.dumps(command_data).encode('utf-8')); the local
\* socket takes the whole envelope, or raises when the daemon end is gone.
ClientSend(c, command) ==
    /\ cpc[c] = "connected"
    /\ IF ServerGone(c)
       THEN /\ cpc' = [cpc EXCEPT ![c] = "done"]
            /\ reply' = [reply EXCEPT ![c] = <<ClientError>>]
            /\ command = [text |-> "ping", pad |-> 0]
            /\ UNCHANGED <<requests, inbuf>>
       ELSE /\ cpc' = [cpc EXCEPT ![c] = "sent"]
            /\ requests' = [requests EXCEPT ![c] = Append(@, command)]
            /\ inbuf' = [inbuf EXCEPT
                           ![c] = Append(@, <<Len(requests[c]) + 1, 1,
                                              EnvelopeLength(command)>>)]
            /\ UNCHANGED reply
    /\ UNCHANGED <<pc, response, outbox, running,
                   storeVars, favVars, playlistVars, pollerVars, restVars>>

\* send_command: sock.recv(4096) returns what the daemon has sent so far, or nothing
\* when the daemon end is gone; json.loads raises on anything but one envelope;
\* sock.close(); return.
ClientReceive(c) ==
    /\ cpc[c] = "sent"
    /\ outbox[c] # <<>> \/ ServerGone(c)
    /\ reply' = [reply EXCEPT ![c] = IF Len(outbox[c]) = 1 THEN <<outbox[c][1].body>>
                                     ELSE <<ClientError>>]
    /\ cpc' = [cpc EXCEPT ![c] = "done"]
    /\ UNCHANGED <<pc, requests, inbuf, response, outbox, running,
                   storeVars, favVars, playlistVars, pollerVars, restVars>>

\* _handle_client from recv to the response it is about to send: recv(4096) returns
\* what has arrived, at most RecvBufSize bytes of it, or nothing once the client has
\* closed; json.loads; the branch of the command, or the except branch of what
\* decode, get or startswith raise on bytes that are no envelope.  result is what
\* the player prints, for the commands that ask.
HandlerReceive(c) ==
    /\ pc[c] = "recv"
    /\ IF inbuf[c] = <<>>
       THEN /\ cpc[c] = "done"
            /\ pc' = [pc EXCEPT ![c] = "closed"]
            /\ UNCHANGED <<inbuf, response>>
       ELSE \E data \in {Take(inbuf[c], RecvBufSize)} :
            \E parsed \in {Loads(data, requests[c])} :
            \E result \in StatusOutputs, ok \in BOOLEAN :
               /\ (parsed = <<>> \/ requests[c][parsed[1]].text \notin {"status", "music:what's playing"})
                     => result = NotPlayingText
               /\ (parsed = <<>> \/ requests[c][parsed[1]].text # "music:what's playing") => ok
               /\ inbuf' = [inbuf EXCEPT ![c] = Drop(@, RecvBufSize)]
               /\ response' =
                     [response EXCEPT
                        ![c] = IF parsed = <<>>
                               THEN <<[body |-> InvalidJson, by |-> c, re |-> 0]>>
                               ELSE IF Get(requests[c][parsed[1]], "payload", "envelope")
                                       # "envelope"
                               THEN <<[body |-> HandlerError, by |-> c, re |-> parsed[1]]>>
                               ELSE <<[body |-> ProcessCommand(requests[c][parsed[1]],
                                                               get_current_track(result), ok),
                                       by |-> c, re |-> parsed[1]]>>]
               /\ pc' = [pc EXCEPT ![c] = "send"]
    /\ UNCHANGED <<cpc, requests, outbox, reply, running,
                   storeVars, favVars, playlistVars, pollerVars, restVars>>

\* A handler whose failed send ends the daemon as well.
HandlerSendStops(c) ==
    /\ pc[c] = "send"
    /\ response' = [response EXCEPT ![c] = <<>>]
    /\ pc' = [pc EXCEPT ![c] = IF ClientOpen(c) THEN "recv" ELSE "closed"]
    /\ running' = ClientOpen(c)
    /\ outbox' = IF ClientOpen(c)
                 THEN [outbox EXCEPT ![client_socket(c)] = Append(@, response[c][1])]
                 ELSE outbox
    /\ UNCHANGED <<cpc, requests, inbuf, reply,
                   storeVars, favVars, playlistVars, pollerVars, restVars>>

\* client_socket.send(json.dumps(response).encode('utf-8')), which raises when the
\* client has closed: the handler then leaves through its outer except and closes.
\* After the response to shutdown the handler closes the socket and calls stop().
HandlerSend(c) ==
    /\ pc[c] = "send"
    /\ response' = [response EXCEPT ![c] = <<>>]
    /\ IF ClientOpen(c)
       THEN /\ outbox' = [outbox EXCEPT ![client_socket(c)] = Append(@, response[c][1])]
            /\ IF Get(response[c][1].body, "message", <<>>) = <<"shutting down">>
               THEN /\ pc' = [pc EXCEPT ![c] = "closed"]
                    /\ running' = FALSE
               ELSE /\ pc' = [pc EXCEPT ![c] = "recv"]
                    /\ UNCHANGED running
       ELSE /\ pc' = [pc EXCEPT ![c] = "closed"]
            /\ UNCHANGED <<outbox, running>>
    /\ UNCHANGED <<cpc, requests, inbuf, reply,
                   storeVars, favVars, playlistVars, pollerVars, restVars>>

InitIPC ==
    /\ cpc = [c \in Conns |-> "start"]
    /\ pc = [c \in Conns |-> "none"]
    /\ requests = [c \in Conns |-> <<>>]
    /\ inbuf = [c \in Conns |-> <<>>]
    /\ response = [c \in Conns |-> <<>>]
    /\ outbox = [c \in Conns |-> <<>>]
    /\ reply = [c \in Conns |-> <<>>]

-----------------------------------------------------------------------------
(* The command processor: handle_command, the intent 'like this' *)

\* What the player prints when the command asks what is playing.
LikeOutputs ==
    {NotPlayingText, ErrorText}
    \cup {<<"Hurt", Separator>> \o a : a \in {<<"Nine Inch Nails">>, <<"Radiohead">>}}

\* The answer that always says the artist was added.
LikeMessageAdded(artist_name, success) == <<"Added ", artist_name, " to your favorites!">>

\* The two answers of the intent, by what add_favorite_artist returned.
LikeMessage(artist_name, success) ==
    IF success THEN <<"Added ", artist_name, " to your favorites!">>
    ELSE <<"i ", artist_name, " is already in your favorites">>

\* the last element of a log, as a log
LastOf(log) == IF log = <<>> THEN <<>> ELSE <<log[Len(log)]>>

\* handle_command('like this'): no earlier intent matches the text; the intent asks
\* the player, and with a track playing adds its artist and answers by the return
\* value of add_favorite_artist.
LikeThis ==
    /\ \E result \in LikeOutputs, ok \in BOOLEAN :
       \E current \in {get_current_track(result)} :
          IF current.status = PlayingStatus
          THEN /\ add_favorite_artist(current.artist, ok)
               /\ likeLog' =
                     LastOf(likeLog) \o
                     <<[artist |-> <<current.artist>>, ok |-> ok,
                        was_favorite |-> IsFavorite(favorite_artists, current.artist),
                        rows_before |-> Len(favorite_artists),
                        rows_after |-> Len(favorite_artists'),
                        message |-> LikeMessage(current.artist, favAdd'.result)]>>
          ELSE /\ ok
               /\ likeLog' =
                     LastOf(likeLog) \o
                     <<[artist |-> <<>>, ok |-> ok, was_favorite |-> FALSE,
                        rows_before |-> Len(favorite_artists),
                        rows_after |-> Len(favorite_artists),
                        message |-> <<"No track currently playing to like">>]>>
               /\ UNCHANGED favVars
    /\ UNCHANGED <<storeVars, playlistVars, running, pollerVars, ipcVars, lifecycleVars,
                   dataVars, cmd, routed, playCall>>

InitCommands ==
    /\ likeLog = <<>>

-----------------------------------------------------------------------------
(* The daemon processes and the socket path: main, is_running, start,
   _setup_socket, stop *)

NumInstances == 2
Instances == 1..NumInstances

\* A connect that never fails.
ConnectAlways(path, listens) == TRUE

\* test_sock.connect(self.socket_path) succeeds when the path names a socket that
\* its process still listens on.
ConnectSucceeds(path, listens) == path # <<>> /\ listens[path[1]]

\* An unlink that leaves the path.
KeepPath(path) == path

\* os.unlink(self.socket_path)
os_unlink(path) == <<>>

\* The daemons whose stop() has returned.
Stopped == {i \in Instances : at[i] \in {"stopped", "exited"}}

\* What is recorded of an is_running that returns: stale is whether its connect met a
\* path that nobody listened on.
ProbeRecord(i, result, stale) ==
    [by |-> i, result |-> result, stale |-> stale, stopped |-> Stopped]

\* main: daemon.is_running() up to its return, or up to the connect that was refused.
\* True ends main ("already running"); False goes on to daemon.start().
MainProbe(i) ==
    /\ at[i] = "off"
    /\ IF endpoint = <<>>
       THEN /\ at' = [at EXCEPT ![i] = "starting"]
            /\ lastProbe' = <<ProbeRecord(i, FALSE, FALSE)>>
            /\ UNCHANGED sawStale
       ELSE IF ConnectSucceeds(endpoint, listening)
       THEN /\ at' = [at EXCEPT ![i] = "exited_running"]
            /\ lastProbe' = <<ProbeRecord(i, TRUE, ~listening[endpoint[1]])>>
            /\ UNCHANGED sawStale
       ELSE /\ at' = [at EXCEPT ![i] = "refused"]
            /\ sawStale' = [sawStale EXCEPT
                                ![i] = <<{j \in Instances : at[j] = "crashed"}>>]
            /\ UNCHANGED lastProbe
    /\ UNCHANGED <<endpoint, flag, listening>>
    /\ UNCHANGED <<storeVars, favVars, playlistVars, running, pollerVars, ipcVars, commandVars, dataVars,
                   storeOpened>>

\* is_running, its except branch: os.unlink(self.socket_path); return False.  When
\* the path is gone by now the unlink raises out of is_running and ends main.
ProbeUnlink(i) ==
    /\ at[i] = "refused"
    /\ IF endpoint # <<>>
       THEN /\ endpoint' = os_unlink(endpoint)
            /\ at' = [at EXCEPT ![i] = "starting"]
            /\ lastProbe' = <<ProbeRecord(i, FALSE, TRUE)>>
       ELSE /\ at' = [at EXCEPT ![i] = "failed"]
            /\ UNCHANGED <<endpoint, lastProbe>>
    /\ UNCHANGED <<flag, listening, sawStale>>
    /\ UNCHANGED <<storeVars, favVars, playlistVars, running, pollerVars, ipcVars, commandVars, dataVars,
                   storeOpened>>

\* MusicDatabase.__init__: init_database catches what sqlite3 raises when the store
\* cannot be opened, prints it and returns, so the store is constructed either way.
MusicDatabaseConstructed(opens) == TRUE

\* start: _init_music_agent, then _setup_socket up to the bind: an existing path is
\* removed.  opens is whether sqlite3 can open the store; agent is whether the rest
\* of ComprehensiveMusicAgent's constructor returns.
StartSetup(i, agent) ==
    /\ at[i] = "starting"
    /\ \E opens \in BOOLEAN :
          /\ storeOpened' = [storeOpened EXCEPT ![i] = <<opens>>]
          /\ IF agent /\ MusicDatabaseConstructed(opens)
             THEN /\ at' = [at EXCEPT ![i] = "binding"]
                  /\ endpoint' = IF endpoint # <<>> THEN os_unlink(endpoint) ELSE endpoint
             ELSE /\ at' = [at EXCEPT ![i] = "exited_noagent"]
                  /\ UNCHANGED endpoint
    /\ UNCHANGED <<flag, listening, sawStale, lastProbe>>
    /\ UNCHANGED <<storeVars, favVars, playlistVars, running, pollerVars, ipcVars, commandVars, dataVars>>

\* _setup_socket: bind and listen, which raise when the path exists (start then
\* returns False); start: self.running = True and the accept loop.
SetupBind(i) ==
    /\ at[i] = "binding"
    /\ IF endpoint = <<>>
       THEN /\ endpoint' = <<i>>
            /\ listening' = [listening EXCEPT ![i] = TRUE]
            /\ flag' = [flag EXCEPT ![i] = TRUE]
            /\ at' = [at EXCEPT ![i] = "serving"]
       ELSE /\ at' = [at EXCEPT ![i] = "exited_nobind"]
            /\ UNCHANGED <<endpoint, listening, flag>>
    /\ UNCHANGED <<sawStale, lastProbe>>
    /\ UNCHANGED <<storeVars, favVars, playlistVars, running, pollerVars, ipcVars, commandVars, dataVars,
                   storeOpened>>

\* _handle_client, command shutdown: the response is sent, then stop() up to its
\* test of the path: self.running = False; self.sock.close().
Shutdown(i) ==
    /\ at[i] = "serving"
    /\ flag' = [flag EXCEPT ![i] = FALSE]
    /\ listening' = [listening EXCEPT ![i] = FALSE]
    /\ at' = [at EXCEPT ![i] = "stopping"]
    /\ UNCHANGED <<endpoint, sawStale, lastProbe>>
    /\ UNCHANGED <<storeVars, favVars, playlistVars, running, pollerVars, ipcVars, commandVars, dataVars,
                   storeOpened>>

\* stop(), the rest: if os.path.exists(self.socket_path): os.unlink(...); return.
StopUnlink(i) ==
    /\ at[i] = "stopping"
    /\ endpoint' = IF endpoint # <<>> THEN os_unlink(endpoint) ELSE endpoint
    /\ at' = [at EXCEPT ![i] = "stopped"]
    /\ UNCHANGED <<flag, listening, sawStale, lastProbe>>
    /\ UNCHANGED <<storeVars, favVars, playlistVars, running, pollerVars, ipcVars, commandVars, dataVars,
                   storeOpened>>

\* start, after the accept loop: finally: self.stop(), and main returns.
FinallyStop(i) ==
    /\ at[i] = "stopped"
    /\ endpoint' = IF endpoint # <<>> THEN os_unlink(endpoint) ELSE endpoint
    /\ at' = [at EXCEPT ![i] = "exited"]
    /\ UNCHANGED <<flag, listening, sawStale, lastProbe>>
    /\ UNCHANGED <<storeVars, favVars, playlistVars, running, pollerVars, ipcVars, commandVars, dataVars,
                   storeOpened>>

\* The process is killed: its socket is closed with it, the path stays.
Crash(i) ==
    /\ at[i] = "serving"
    /\ listening' = [listening EXCEPT ![i] = FALSE]
    /\ at' = [at EXCEPT ![i] = "crashed"]
    /\ UNCHANGED <<endpoint, flag, sawStale, lastProbe>>
    /\ UNCHANGED <<storeVars, favVars, playlistVars, running, pollerVars, ipcVars, commandVars, dataVars,
                   storeOpened>>

InitLifecycle ==
    /\ endpoint = <<>>
    /\ at = [i \in Instances |-> "off"]
    /\ flag = [i \in Instances |-> FALSE]
    /\ listening = [i \in Instances |-> FALSE]
    /\ sawStale = [i \in Instances |-> <<>>]
    /\ lastProbe = <<>>
    /\ storeOpened = [i \in Instances |-> <<>>]

-----------------------------------------------------------------------------
(* Table playlist_tracks: store_playlist_tracks, get_playlist_tracks *)

TrackIds == {"t1", "t2"}

\* The items of a track listing: a track, a removed track ('track': None) and an
\* item without the key 'track', which item['track'] raises on.
TrackItem(id) == [track |-> <<[id |-> id, name |-> <<id>>]>>, added_at |-> "d"]
RemovedItem == [track |-> <<>>, added_at |-> "d"]
MalformedItem == [added_at |-> "d"]

TrackLists ==
    {<<TrackItem("t1"), TrackItem("t2")>>,
     <<TrackItem("t2"), TrackItem("t2")>>,
     <<RemovedItem, TrackItem("t2")>>,
     <<TrackItem("t2"), MalformedItem>>}

\* SELECT id FROM playlists WHERE spotify_id = ?, fetchone(): <<id>>, or <<>> for None.
LookupAnyPlaylistId(rows, spotify_id) ==
    IF rows = <<>> THEN <<>> ELSE <<rows[1].id>>

LookupPlaylistId(rows, spotify_id) ==
    IF \E r \in Range(rows) : r.spotify_id = spotify_id
    THEN <<(CHOOSE r \in Range(rows) : r.spotify_id = spotify_id).id>>
    ELSE <<>>

\* DELETE FROM playlist_tracks WHERE playlist_id = ?
DeleteTracksOf(rows, db_playlist_id) == {r \in rows : r.playlist_id # db_playlist_id}

\* INSERT OR IGNORE INTO playlist_tracks: UNIQUE(playlist_id, spotify_track_id).
InsertOrIgnoreTrack(rows, db_playlist_id, track, position) ==
    IF \E r \in rows : r.playlist_id = db_playlist_id /\ r.spotify_track_id = track.id
    THEN rows
    ELSE rows \cup {[playlist_id |-> db_playlist_id, spotify_track_id |-> track.id,
                     track_name |-> track.name, track_position |-> position]}

\* Leaving the  with sqlite3.connect(...)  block by an exception rolls the
\* connection's changes back: the table is the committed one.
KeepPartial(committed, working) == working

Rollback(committed, working) == committed

\* The track ids a listing names: the tracks of its items that hold one.
ListedIds(tracks) ==
    {tracks[i].track[1].id :
        i \in {k \in 1..Len(tracks) : "track" \in DOMAIN tracks[k] /\ tracks[k].track # <<>>}}

\* What a returning store_playlist_tracks records; n is the parity of the calls
\* returned so far.
TrackReturn(spotify_id, result) ==
    [op |-> "store_playlist_tracks", spotify_id |-> spotify_id, result |-> result,
     n |-> 1 - Get(trackCall, "n", 0)]

\* store_playlist_tracks up to its DELETE.  The connection's changes live in txn
\* until the commit: other connections read playlist_tracks.
TracksBegin(spotify_id, tracks, ok) ==
    /\ txn = <<>>
    /\ \E found \in {LookupPlaylistId(playlists, spotify_id)} :
          IF ~ok \/ found = <<>>
          THEN /\ trackCall' = TrackReturn(spotify_id, FALSE)
               /\ UNCHANGED txn
          ELSE /\ txn' = <<[spotify_id |-> spotify_id, db_playlist_id |-> found[1],
                            tracks |-> tracks, position |-> 0,
                            rows |-> DeleteTracksOf(playlist_tracks, found[1])]>>
               /\ UNCHANGED trackCall
    /\ trackRead' = NoCall
    /\ UNCHANGED <<playlist_tracks, complete>>

StorePlaylistTracksBegin ==
    /\ \E sid \in SpotifyIds, tracks \in TrackLists, ok \in BOOLEAN :
          TracksBegin(sid, tracks, ok)
    /\ UNCHANGED <<storeVars, favVars, playlistVars, running, pollerVars, ipcVars,
                   commandVars, lifecycleVars, relationshipVars>>

\* One turn of  for position, item in enumerate(tracks) , or, past the last item,
\* conn.commit() and return True; an exception ends the call by the except branch.
TracksStep(ok) ==
    /\ txn # <<>>
    /\ \E t \in {txn[1]} :
          IF t.position = Len(t.tracks)
          THEN /\ playlist_tracks' =
                     IF ok THEN t.rows ELSE Rollback(playlist_tracks, t.rows)
               /\ complete' =
                     IF ok
                     THEN {c \in complete : c[1] # t.db_playlist_id}
                             \cup {<<t.db_playlist_id, ListedIds(t.tracks)>>}
                     ELSE complete
               /\ trackCall' = TrackReturn(t.spotify_id, ok)
               /\ txn' = <<>>
          ELSE \E item \in {t.tracks[t.position + 1]} :
                  IF ~ok \/ "track" \notin DOMAIN item
                  THEN /\ playlist_tracks' = Rollback(playlist_tracks, t.rows)
                       /\ trackCall' = TrackReturn(t.spotify_id, FALSE)
                       /\ txn' = <<>>
                       /\ UNCHANGED complete
                  ELSE /\ txn' = <<[t EXCEPT
                                      !.position = @ + 1,
                                      !.rows = IF item.track = <<>> THEN @
                                               ELSE InsertOrIgnoreTrack(@, t.db_playlist_id,
                                                        item.track[1], t.position)]>>
                       /\ UNCHANGED <<playlist_tracks, complete, trackCall>>
    /\ trackRead' = NoCall

StorePlaylistTracksStep ==
    /\ \E ok \in BOOLEAN : TracksStep(ok)
    /\ UNCHANGED <<storeVars, favVars, playlistVars, running, pollerVars, ipcVars,
                   commandVars, lifecycleVars, relationshipVars>>

\* Bound: the playlists the sync stores.
MaxSyncs == 2

\* The name the music service gives for a playlist id.
SyncName(spotify_id) == IF spotify_id = "sp1" THEN <<"a", "b">> ELSE <<"a", "_", "c">>

\* The sync's store_playlist(playlist); called while store_playlist_tracks holds the
\* write lock it waits for the lock.
SyncPlaylist ==
    /\ txn = <<>>
    /\ playlistSeq < MaxSyncs
    /\ \E sid \in SpotifyIds, ok \in BOOLEAN : store_playlist(sid, SyncName(sid), ok)
    /\ UNCHANGED <<storeVars, favVars, running, pollerVars, ipcVars, restVars>>

\* ORDER BY pt.track_position
ByPosition(S) ==
    {s \in Orderings(S) :
        \A i, j \in 1..Len(s) : i < j => s[i].track_position <= s[j].track_position}

\* get_playlist_tracks' default limit.
DefaultLimit == 50

\* SELECT ... FROM playlist_tracks pt JOIN playlists p ON pt.playlist_id = p.id
\* WHERE p.spotify_id = ? ORDER BY pt.track_position LIMIT ?
SelectPlaylistTracks(tracks, lists, spotify_id, limit) ==
    {[i \in 1..(IF Len(s) < limit THEN Len(s) ELSE limit) |-> s[i].track_name] :
        s \in ByPosition({r \in tracks :
                 \E p \in Range(lists) : p.id = r.playlist_id /\ p.spotify_id = spotify_id})}

TrackQueries == {<<"a", "b">>, <<"x">>}

\* get_playlist_tracks: it reads the committed tables, also while a
\* store_playlist_tracks is between its DELETE and its commit.
get_playlist_tracks(playlist_name, ok) ==
    \E playlist \in FindPlaylistResults(playlists, playlist_name, TRUE) :
       \E result \in (IF ok /\ playlist # <<>>
                      THEN SelectPlaylistTracks(playlist_tracks, playlists,
                                                playlist[1].spotify_id, DefaultLimit)
                      ELSE {<<>>}) :
          /\ trackRead' = [op |-> "get_playlist_tracks", ok |-> ok,
                           playlist |-> playlist, result |-> result]
          /\ UNCHANGED <<playlist_tracks, txn, trackCall, complete>>

GetPlaylistTracks ==
    /\ \E n \in TrackQueries, ok \in BOOLEAN : get_playlist_tracks(n, ok)
    /\ UNCHANGED <<storeVars, favVars, playlistVars, running, pollerVars, ipcVars,
                   commandVars, lifecycleVars, relationshipVars>>

InitTracks ==
    /\ playlist_tracks = {}
    /\ txn = <<>>
    /\ trackCall = NoCall
    /\ complete = {}
    /\ trackRead = NoCall

-----------------------------------------------------------------------------
(* Table musical_relationships: add_relationship, get_relationships_for_entity *)

\* Bounds: the rows of the table, and the seconds datetime('now') counts.
MaxRelationships == 2
MaxDate == 2

\* An entity is (type, name, artist); the artist is <<>> for None (SQL NULL).
ArtistA == [type |-> "artist", name |-> "A", artist |-> <<>>]
TrackX == [type |-> "track", name |-> "H", artist |-> <<"x">>]
TrackY == [type |-> "track", name |-> "H", artist |-> <<"y">>]
Entities == {ArtistA, TrackX, TrackY}
Edges == {<<TrackX, TrackY>>, <<ArtistA, TrackX>>, <<TrackY, ArtistA>>}
RelationshipTypes == {"cover_of"}

\* confidence (in tenths), notes and added_by of a call; the first are the defaults.
RelationshipAttributes ==
    {[confidence |-> 10, notes |-> <<>>, added_by |-> "user"],
     [confidence |-> 5, notes |-> <<"n">>, added_by |-> "api"]}

RelationshipRow(source, target, relationship_type, attributes, now) ==
    [source_type |-> source.type, source_name |-> source.name,
     source_artist |-> source.artist,
     target_type |-> target.type, target_name |-> target.name,
     target_artist |-> target.artist,
     relationship_type |-> relationship_type,
     confidence |-> attributes.confidence, notes |-> attributes.notes,
     added_date |-> now, added_by |-> attributes.added_by]

RelationshipKey(r) ==
    <<r.source_type, r.source_name, r.source_artist, r.target_type, r.target_name,
      r.target_artist, r.relationship_type>>

\* UNIQUE(source_type, source_name, source_artist, target_type, target_name,
\* target_artist, relationship_type): two rows conflict when the seven columns are
\* equal, and a NULL is equal to nothing, another NULL included.
UniqueConflict(r, new) ==
    /\ RelationshipKey(r) = RelationshipKey(new)
    /\ new.source_artist # <<>>
    /\ new.target_artist # <<>>

\* INSERT OR REPLACE INTO musical_relationships: the conflicting rows are deleted
\* and the new row is inserted.
InsertOrReplaceRelationship(rows, new) ==
    Append(SelectSeq(rows, LAMBDA r : ~UniqueConflict(r, new)), new)

\* datetime('now'): the clock's second, not before the latest stored one.
LatestDate(rows) ==
    IF rows = <<>> THEN 1
    ELSE CHOOSE d \in {rows[i].added_date : i \in 1..Len(rows)} :
            \A i \in 1..Len(rows) : rows[i].added_date <= d

add_relationship(source, target, relationship_type, attributes, now, ok) ==
    \E new \in {RelationshipRow(source, target, relationship_type, attributes, now)} :
       \E rows \in {IF ok THEN InsertOrReplaceRelationship(musical_relationships, new)
                    ELSE musical_relationships} :
          /\ Len(rows) <= MaxRelationships
          /\ musical_relationships' = rows
          /\ relAdd' = [op |-> "add_relationship", row |-> new, source |-> source,
                        target |-> target, result |-> ok]
          /\ relQuery' = NoCall

AddRelationship ==
    /\ \E e \in Edges, t \in RelationshipTypes, a \in RelationshipAttributes,
          now \in {LatestDate(musical_relationships),
                   LatestDate(musical_relationships) + 1} \cap 1..MaxDate,
          ok \in BOOLEAN :
          add_relationship(e[1], e[2], t, a, now, ok)
    /\ UNCHANGED <<storeVars, favVars, playlistVars, running, pollerVars, ipcVars,
                   commandVars, lifecycleVars, trackVars>>

\* (source_artist = ? OR source_artist IS NULL OR ? IS NULL): a comparison with a
\* NULL on either side is not true.
ArtistEqual(column, entity_artist) ==
    column # <<>> /\ entity_artist # <<>> /\ column = entity_artist

ArtistMatches(column, entity_artist) ==
    \/ (column # <<>> /\ entity_artist # <<>> /\ column = entity_artist)
    \/ column = <<>>
    \/ entity_artist = <<>>

\* The first SELECT: the rows with the entity as source, the target as related.
Outgoing(r) ==
    [related_type |-> r.target_type, related_name |-> r.target_name,
     related_artist |-> r.target_artist, relationship_type |-> r.relationship_type,
     confidence |-> r.confidence, notes |-> r.notes, added_date |-> r.added_date,
     added_by |-> r.added_by, direction |-> "outgoing"]

\* The second SELECT: the rows with the entity as target, the source as related.
Incoming(r) ==
    [related_type |-> r.source_type, related_name |-> r.source_name,
     related_artist |-> r.source_artist, relationship_type |-> r.relationship_type,
     confidence |-> r.confidence, notes |-> r.notes, added_date |-> r.added_date,
     added_by |-> r.added_by, direction |-> "incoming"]

\* The rows the first SELECT's WHERE takes, and the second's.
SourceRows(rows, entity) ==
    SelectSeq(rows, LAMBDA r : /\ r.source_type = entity.type
                               /\ r.source_name = entity.name
                               /\ ArtistMatches(r.source_artist, entity.artist))

TargetRows(rows, entity) ==
    SelectSeq(rows, LAMBDA r : /\ r.target_type = entity.type
                               /\ r.target_name = entity.name
                               /\ ArtistMatches(r.target_artist, entity.artist))

\* UNION ALL of the two SELECTs.
UnionAll(rows, entity) ==
    [i \in 1..Len(SourceRows(rows, entity)) |-> Outgoing(SourceRows(rows, entity)[i])]
    \o
    [i \in 1..Len(TargetRows(rows, entity)) |-> Incoming(TargetRows(rows, entity)[i])]

\* ORDER BY added_date DESC: rows of one second come in any order.
ByDateDesc(s) ==
    {[i \in 1..Len(s) |-> s[p[i]]] :
        p \in {q \in Orderings(1..Len(s)) :
                 \A i, j \in 1..Len(s) :
                    i < j => s[q[i]].added_date >= s[q[j]].added_date}}

get_relationships_for_entity(entity, ok) ==
    /\ \E result \in (IF ok THEN ByDateDesc(UnionAll(musical_relationships, entity))
                      ELSE {<<>>}) :
          relQuery' = [op |-> "get_relationships_for_entity", entity |-> entity,
                       ok |-> ok, result |-> result]
    /\ UNCHANGED <<musical_relationships, relAdd>>

GetRelationshipsForEntity ==
    /\ \E entity \in Entities, ok \in BOOLEAN : get_relationships_for_entity(entity, ok)
    /\ UNCHANGED <<storeVars, favVars, playlistVars, running, pollerVars, ipcVars,
                   commandVars, lifecycleVars, trackVars>>

InitRelationships ==
    /\ musical_relationships = <<>>
    /\ relAdd = NoCall
    /\ relQuery = NoCall

-----------------------------------------------------------------------------
(* The command processor: handle_command, all of its intents.  A command is
   a string, that is, the sequence of its characters. *)

\* The commands of the model: one or more for every intent that a text can reach,
\* and two that match no intent.
CommandInputs ==
    {"sync", "next", "go back", "pause", "resume", "what's playing", "like this",
     "like artist Enya", "show favorites", "tag this as chill", "show tags",
     "find songs tagged chill", "play songs tagged chill", "shuffle my liked songs",
     "shuffle playlist road", "list playlists", "play playlist road",
     "random from road", "what genre is this", "lyrics", "lyrics of creep",
     "play some mellow music", "play me some Enya", "Play creep", "search for creep",
     "this is a cover of hurt by cash", "show relationships", "hello", "synchronise",
     "unpause", "like john hiatt"}

\* str.lower(), on the letters the commands of the model have in upper case
PyLowerChar(ch) == CASE ch = "E" -> "e" [] ch = "P" -> "p" [] OTHER -> ch

RECURSIVE lower(_)
lower(s) ==
    IF Len(s) = 0 THEN ""
    ELSE PyLowerChar(SubSeq(s, 1, 1)) \o lower(SubSeq(s, 2, Len(s)))

\* phrase in text
In(phrase, text) ==
    \E i \in 1..(Len(text) - Len(phrase) + 1) : SubSeq(text, i, i + Len(phrase) - 1) = phrase

\* any(phrase in text for phrase in phrases)
AnyIn(phrases, text) == \E p \in phrases : In(p, text)

\* str.strip()
RECURSIVE Strip(_)
Strip(s) ==
    IF Len(s) = 0 THEN ""
    ELSE IF SubSeq(s, 1, 1) = " " THEN Strip(SubSeq(s, 2, Len(s)))
    ELSE IF SubSeq(s, Len(s), Len(s)) = " " THEN Strip(SubSeq(s, 1, Len(s) - 1))
    ELSE s

\* s.replace(old, "")
RECURSIVE Remove(_, _)
Remove(s, old) ==
    IF Len(s) < Len(old) THEN s
    ELSE IF SubSeq(s, 1, Len(old)) = old THEN Remove(SubSeq(s, Len(old) + 1, Len(s)), old)
    ELSE SubSeq(s, 1, 1) \o Remove(SubSeq(s, 2, Len(s)), old)

\* re.search(phrase + '(.+)', text).group(1): <<the text after the first place of the
\* phrase that something follows>>, or <<>> when the pattern does not match.
After(text, phrase) ==
    LET at_ == {i \in 1..(Len(text) - Len(phrase)) : SubSeq(text, i, i + Len(phrase) - 1) = phrase}
    IN  IF at_ = {} THEN <<>>
        ELSE LET i == CHOOSE i \in at_ : \A k \in at_ : i <= k
             IN  <<SubSeq(text, i + Len(phrase), Len(text))>>

\* re.search(first + '(.+?)' + last, text).group(1): the lazy group ends at the first
\* place of last that leaves it a character
Between(text, first, last) ==
    IF After(text, first) = <<>> THEN <<>>
    ELSE LET rest == After(text, first)[1]
             at_ == {i \in 2..(Len(rest) - Len(last) + 1) : SubSeq(rest, i, i + Len(last) - 1) = last}
         IN  IF at_ = {} THEN <<>>
             ELSE <<SubSeq(rest, 1, (CHOOSE i \in at_ : \A k \in at_ : i <= k) - 1)>>

\* A string as the store's text: the sequence of its characters.
Text(s) == [i \in 1..Len(s) |-> SubSeq(s, i, i)]

\* The intents in the order of their branches in handle_command; "help" is what
\* follows the last branch.
IntentOrder ==
    <<"sync", "next_track", "previous_track", "pause", "resume", "whats_playing", "like",
      "favorites", "tag_this", "show_tags", "songs_tagged", "shuffle_liked",
      "shuffle_playlist", "list_playlists", "play_playlist", "random_from", "analysis",
      "lyric_search", "play_by_tags", "play_artist_collection", "play", "search",
      "add_relationship", "show_relationships", "lyrics", "help">>

\* The condition of an intent's branch, on the command in lower case.
Predicate(intent, c) ==
    CASE intent = "sync" -> c = "sync"
      [] intent = "next_track" -> In("next track", c) \/ In("skip", c) \/ In("next", c)
      [] intent = "previous_track" -> In("previous track", c) \/ In("back", c) \/ In("previous", c)
      [] intent = "pause" -> In("pause", c)
      [] intent = "resume" -> In("resume", c) \/ In("unpause", c)
      [] intent = "whats_playing" -> In("what's playing", c) \/ In("current track", c)
      [] intent = "like" -> In("like", c) /\ (In("artist", c) \/ In("this", c))
      [] intent = "favorites" -> In("favorites", c) \/ In("favourite", c)
      [] intent = "tag_this" -> In("tag this", c) \/ In("add tag", c)
      [] intent = "show_tags" -> In("show tags", c) \/ In("what tags", c)
      [] intent = "songs_tagged" -> In("find songs tagged", c) \/ In("play songs tagged", c)
      [] intent = "shuffle_liked" ->
            In("shuffle", c) /\ (In("liked songs", c) \/ In("my liked", c))
      [] intent = "shuffle_playlist" -> In("shuffle", c) /\ In("playlist", c)
      [] intent = "list_playlists" -> In("list playlists", c) \/ In("show playlists", c)
      [] intent = "play_playlist" -> In("play playlist", c) \/ In("play the playlist", c)
      [] intent = "random_from" -> In("random from", c)
      [] intent = "analysis" ->
            AnyIn({"what kind of music", "what genre", "what style", "describe this music"}, c)
      [] intent = "lyric_search" -> In("where they say", c) \/ In("lyrics", c)
      [] intent = "play_by_tags" ->
            /\ AnyIn({"play some", "play something", "i want to hear", "put on some"}, c)
            /\ AnyIn({"music", "song", "track"}, c)
      [] intent = "play_artist_collection" -> In("play me some", c) \/ In("play some", c)
      [] intent = "play" -> In("play", c) /\ ~In("playing", c)
      [] intent = "search" -> In("search", c) \/ In("find", c)
      [] intent = "add_relationship" -> In("add relationship", c) \/ In("this is", c)
      [] intent = "show_relationships" ->
            In("show relationships", c) \/ In("what relationships", c)
      [] intent = "lyrics" -> In("lyrics", c)
      [] OTHER -> TRUE

\* A chain that tests the phrases of the artist collection before every other branch.
IntentArtistFirst(c) ==
    IF In("play me some", c) \/ In("play some", c) THEN "play_artist_collection" ELSE "help"

\* A chain whose last branch plays what the command says instead of answering with
\* the help message.
IntentPlayDefault(c) ==
    LET first == CHOOSE i \in 1..Len(IntentOrder) :
                    /\ Predicate(IntentOrder[i], c)
                    /\ \A k \in 1..(i - 1) : ~Predicate(IntentOrder[k], c)
    IN  IF IntentOrder[first] = "help" THEN "play" ELSE IntentOrder[first]

\* The if/elif chain of handle_command: the branch that runs for a command in lower
\* case.
Intent(c) ==
    IF Predicate("sync", c) THEN "sync"
    ELSE IF Predicate("next_track", c) THEN "next_track"
    ELSE IF Predicate("previous_track", c) THEN "previous_track"
    ELSE IF Predicate("pause", c) THEN "pause"
    ELSE IF Predicate("resume", c) THEN "resume"
    ELSE IF Predicate("whats_playing", c) THEN "whats_playing"
    ELSE IF Predicate("like", c) THEN "like"
    ELSE IF Predicate("favorites", c) THEN "favorites"
    ELSE IF Predicate("tag_this", c) THEN "tag_this"
    ELSE IF Predicate("show_tags", c) THEN "show_tags"
    ELSE IF Predicate("songs_tagged", c) THEN "songs_tagged"
    ELSE IF Predicate("shuffle_liked", c) THEN "shuffle_liked"
    ELSE IF Predicate("shuffle_playlist", c) THEN "shuffle_playlist"
    ELSE IF Predicate("list_playlists", c) THEN "list_playlists"
    ELSE IF Predicate("play_playlist", c) THEN "play_playlist"
    ELSE IF Predicate("random_from", c) THEN "random_from"
    ELSE IF Predicate("analysis", c) THEN "analysis"
    ELSE IF Predicate("lyric_search", c) THEN "lyric_search"
    ELSE IF Predicate("play_by_tags", c) THEN "play_by_tags"
    ELSE IF Predicate("play_artist_collection", c) THEN "play_artist_collection"
    ELSE IF Predicate("play", c) THEN "play"
    ELSE IF Predicate("search", c) THEN "search"
    ELSE IF Predicate("add_relationship", c) THEN "add_relationship"
    ELSE IF Predicate("show_relationships", c) THEN "show_relationships"
    ELSE IF Predicate("lyrics", c) THEN "lyrics"
    ELSE "help"

\* What a command meets outside the processor: result is what the player prints
\* when asked for its track, player_ok whether its playback scripts run, catalog
\* what the music service does (self.sp is None, its requests raise, they find
\* nothing, they find what is asked for, an artist with the genres), ok whether the
\* store's statements run.
CommandOutputs == LikeOutputs \cup {<<"Hurt">>}
Catalog == {"unavailable", "raises", "nothing", "found"}
Environments ==
    {e \in [result : CommandOutputs, player_ok : BOOLEAN, catalog : Catalog,
            genres : GenreLists, ok : BOOLEAN] :
        e.catalog # "found" => e.genres = <<>>}

\* What the catalog finds for the model's commands.
FoundTrack == [name |-> "Creep", artist |-> <<"Radiohead">>]

\* A call is named by the function that makes it inside its try block:
\* run_applescript for a script of the player, get_current_track for the parse of
\* its answer, a method of the store for its statement, and for a request to the
\* catalog the helper that sends it.
PlayerCalls == {"run_applescript"}
StoreWrites == {"add_favorite_artist", "add_tag", "add_relationship", "log_play_history"}
QueryCalls == <<"run_applescript", "get_current_track">>

\* The functions that catch what their call raises, all but the parse of the
\* player's answer.
TryExceptButParse ==
    {"run_applescript", "search_track_fuzzy", "play_artist_collection",
     "shuffle_liked_songs", "_analyze_current_music", "add_favorite_artist",
     "get_favorite_artists", "add_tag", "get_tags_for_entity", "get_entities_by_tag",
     "find_playlist_by_name", "get_playlists", "get_playlist_tracks", "log_play_history",
     "add_relationship", "get_relationships_for_entity", "get_track_lyrics"}

\* The functions that catch what their call raises.
TryExcept == TryExceptButParse \cup {"get_current_track"}

\* Whether a call meets an exception inside its function.
Fails(call, e) ==
    CASE call = "run_applescript" -> ~e.player_ok \/ e.result = ErrorText
      [] call = "get_current_track" ->
            /\ "Not playing" \notin Range(e.result)
            /\ "X" \notin Range(e.result)
            /\ Len(Split(e.result)) < 2
      [] call \in {"search_track_fuzzy", "play_artist_collection", "shuffle_liked_songs",
                   "_analyze_current_music", "get_track_lyrics"} -> e.catalog = "raises"
      [] OTHER -> ~e.ok

\* <<the first call whose exception nothing catches>>: it leaves handle_command.
Escapes(calls, e) ==
    LET at_ == {i \in 1..Len(calls) : Fails(calls[i], e) /\ calls[i] \notin TryExcept}
    IN  IF at_ = {} THEN <<>> ELSE <<CHOOSE i \in at_ : \A k \in at_ : i <= k>>

\* A snapshot kept from the command before, when there is one, in the place of a query.
EarlierTrack(e) ==
    IF cmd.op = "handle_command" /\ cmd.used # <<>> THEN cmd.used[1]
    ELSE get_current_track(e.result)

\* current = self.get_current_track(), in an intent
Track(e) == get_current_track(e.result)

IsPlayingTrack(track) == track.status = PlayingStatus

NoWrite == [op |-> "none"]

\* What a branch does: its calls in order, the string it returns as <<the mark the
\* string starts with, its text>>, its write to the store, <<the track it used>>.
Done(calls, mark, text, write, used) ==
    [calls |-> calls, message |-> <<mark, text>>, write |-> write, used |-> used]

\* play_track: the script, and when it ran the query that verifies it
play_track(e) ==
    IF ~e.player_ok THEN [calls |-> <<"run_applescript">>, ok |-> FALSE]
    ELSE [calls |-> <<"run_applescript">> \o QueryCalls,
          ok |-> IsPlayingTrack(get_current_track(e.result))]

\* search_track_fuzzy: whether it returns a track
search_track_fuzzy(e) ==
    IF e.catalog = "unavailable" THEN [calls |-> <<>>, ok |-> FALSE]
    ELSE [calls |-> <<"search_track_fuzzy">>, ok |-> e.catalog = "found"]

\* play_artist_collection: the playlists of the artist, then the top track
play_artist_collection(e) ==
    IF e.catalog = "unavailable" THEN [calls |-> <<>>, ok |-> FALSE]
    ELSE IF e.catalog # "found"
    THEN [calls |-> <<"play_artist_collection", "play_artist_collection">>, ok |-> FALSE]
    ELSE IF e.player_ok /\ IsPlayingTrack(get_current_track(e.result))
    THEN [calls |-> <<"play_artist_collection", "run_applescript">> \o QueryCalls,
          ok |-> TRUE]
    ELSE [calls |-> <<"play_artist_collection", "run_applescript">>
                    \o (IF e.player_ok THEN QueryCalls ELSE <<>>)
                    \o <<"play_artist_collection">> \o play_track(e).calls,
          ok |-> play_track(e).ok]

\* play_playlist_by_name: the stored playlist, played and verified as play_track
\* does, else the catalog
play_playlist_by_name(e, playlist) ==
    IF playlist # <<>> /\ play_track(e).ok
    THEN [calls |-> <<"find_playlist_by_name">> \o play_track(e).calls, ok |-> TRUE]
    ELSE [calls |-> <<"find_playlist_by_name">>
                    \o (IF playlist # <<>> THEN play_track(e).calls ELSE <<>>)
                    \o play_artist_collection(e).calls,
          ok |-> play_artist_collection(e).ok]

\* shuffle_playlist_by_name: the stored playlist, shuffling set before the query
shuffle_playlist_by_name(e, playlist) ==
    IF playlist = <<>> THEN [calls |-> <<"find_playlist_by_name">>, ok |-> FALSE]
    ELSE IF ~e.player_ok
    THEN [calls |-> <<"find_playlist_by_name", "run_applescript">>, ok |-> FALSE]
    ELSE [calls |-> <<"find_playlist_by_name", "run_applescript", "run_applescript">>
                    \o QueryCalls,
          ok |-> IsPlayingTrack(get_current_track(e.result))]

\* _analyze_current_music: the catalog's track, and an add_tag for each genre of
\* its artist
analyze_current_music(e) ==
    IF e.catalog = "unavailable" THEN [calls |-> <<>>, ok |-> FALSE]
    ELSE [calls |-> <<"_analyze_current_music">>
                    \o [i \in 1..Len(e.genres) |-> "add_tag"],
          ok |-> e.catalog = "found"]

\* a group that may not have matched, as a string
OrEmpty(m) == IF m = <<>> THEN "" ELSE m[1]

\* The optional (?:as |with ) before a group that keeps a character.
DropOptional(s) ==
    IF Len(s) > 3 /\ SubSeq(s, 1, 3) = "as " THEN SubSeq(s, 4, Len(s))
    ELSE IF Len(s) > 5 /\ SubSeq(s, 1, 5) = "with " THEN SubSeq(s, 6, Len(s))
    ELSE s

\* The tag a command names, by the patterns without quotation marks (the model's
\* commands have none): <<tag_text>>, or <<>> for None.
TagText(c, phrases) ==
    LET m == SelectSeq(phrases, LAMBDA p : After(c, p) # <<>>)
    IN  IF m = <<>> THEN <<>> ELSE <<Strip(DropOptional(After(c, m[1])[1]))>>

\* for word in words: if word in text: ... break
FirstIn(words, text) ==
    LET m == SelectSeq(words, LAMBDA w : In(w, text))
    IN  IF m = <<>> THEN <<>> ELSE <<m[1]>>

\* The category words of 'tag this'.
TagCategory(tag_text) ==
    IF AnyIn({"energy", "energetic", "pump", "intense", "powerful", "driving"}, tag_text)
    THEN "energy"
    ELSE IF AnyIn({"rock", "jazz", "electronic", "pop", "classical", "hip hop", "country",
                   "blues", "metal", "punk", "folk"}, tag_text)
    THEN "genre"
    ELSE "mood"

\* The words of a tag-based request: <<category, value>>, or <<>>.
RequestedTag(c) ==
    LET mood == FirstIn(<<"mellow", "chill", "relaxing", "calm", "peaceful", "energetic",
                          "upbeat", "sad", "happy", "aggressive">>, c)
        genre == FirstIn(<<"rock", "jazz", "classical", "pop", "electronic", "country",
                           "blues", "folk", "metal", "punk", "americana", "roots">>, c)
        tempo == FirstIn(<<"fast", "slow", "medium", "quick", "upbeat", "downtempo">>, c)
    IN  IF mood # <<>> THEN <<"mood", mood[1]>>
        ELSE IF genre # <<>> THEN <<"genre", genre[1]>>
        ELSE IF tempo # <<>> THEN <<"tempo", tempo[1]>>
        ELSE <<>>

\* The loop over the patterns of a playlist name: the name is the group of the first
\* pattern that matches with a name the loop accepts, else that of the last pattern
\* that matches; names are the matches in the order of the patterns.
NameOfPatterns(matches, rejected_names, rejected_words) ==
    LET names == [i \in 1..Len(SelectSeq(matches, LAMBDA m : m # <<>>)) |->
                     Strip(SelectSeq(matches, LAMBDA m : m # <<>>)[i][1])]
        good == SelectSeq(names, LAMBDA n : n \notin rejected_names
                                            /\ ~AnyIn(rejected_words, n))
    IN  IF good # <<>> THEN good[1]
        ELSE IF names # <<>> THEN names[Len(names)]
        ELSE ""

\* The playlist an intent names ("" when it names none).
PlaylistName(intent, c) ==
    CASE intent = "shuffle_playlist" ->
            NameOfPatterns(<<After(c, "shuffle playlist "),
                             Between(c, "shuffle ", " playlist"),
                             After(c, "shuffle ")>>,
                           {"playlist", "the", "my"}, {})
      [] intent = "play_playlist" ->
            Strip(Remove(Remove(c, "play playlist"), "play the playlist"))
      [] intent = "random_from" ->
            NameOfPatterns(<<Between(c, "random from ", " playlist"),
                             After(c, "random from playlist "),
                             Between(c, "play random from ", " playlist"),
                             After(c, "play random from playlist "),
                             After(c, "random from "),
                             After(c, "play random from ")>>,
                           {}, {"music", "song", "track"})
      [] OTHER -> ""

\* The group of the first pattern of 'like', for a command 'like artist <letters>'.
LikedArtist(c) ==
    IF After(c, "like artist ") = <<>> THEN "" ELSE Strip(After(c, "like artist ")[1])

\* ([^"]+) by ([^"]+): the text before the last " by " and the text behind it, both
\* stripped
SplitLastBy(s) ==
    LET at_ == {i \in 2..(Len(s) - 4) : SubSeq(s, i, i + 3) = " by "}
    IN  IF at_ = {} THEN <<>>
        ELSE LET i == CHOOSE i \in at_ : \A k \in at_ : k <= i
             IN  <<Strip(SubSeq(s, 1, i - 1)), Strip(SubSeq(s, i + 4, Len(s)))>>

\* The first of the patterns of 'add relationship' that matches:
\* <<relationship_type, target_name, target_artist>>, or <<>>.
ParsedRelationship(c) ==
    LET lead(long, short) == IF After(c, long) # <<>> THEN After(c, long)
                             ELSE After(c, short)
        remix == lead("this is a remix of ", "this is remix of ")
        cover == lead("this is a cover of ", "this is cover of ")
        influenced == lead("this was influenced by ", "this influenced by ")
        parsed(kind, m) == IF m # <<>> /\ SplitLastBy(m[1]) # <<>>
                           THEN <<kind>> \o SplitLastBy(m[1]) ELSE <<>>
    IN  IF parsed("remix_of", remix) # <<>> THEN parsed("remix_of", remix)
        ELSE IF parsed("cover_of", cover) # <<>> THEN parsed("cover_of", cover)
        ELSE parsed("influenced_by", influenced)

\* search_by_lyrics: a word of a known lyric in the fragment finds its song without
\* a call; else the words of the fragment longer than three characters go to
\* search_track_fuzzy.
KnownLyricWords ==
    {"encumbered", "forever", "by", "desire", "and", "ambition",
     "wish", "real", "hard", "when", "i", "close", "my", "eyes"}

LyricKind(fragment) ==
    IF AnyIn(KnownLyricWords, fragment) THEN "known"
    ELSE IF \E i \in 1..(Len(fragment) - 3) : ~In(" ", SubSeq(fragment, i, i + 3))
    THEN "words"
    ELSE "none"

search_by_lyrics(kind, e) ==
    IF kind = "known" THEN [calls |-> <<>>, ok |-> TRUE]
    ELSE IF kind = "words" THEN search_track_fuzzy(e)
    ELSE [calls |-> <<>>, ok |-> FALSE]

\* The lyric fragment of a command.
LyricFragment(c) ==
    IF In("where they say", c)
    THEN (IF After(c, "where they say") = <<>> THEN ""
          ELSE Strip(After(c, "where they say")[1]))
    ELSE Strip(Remove(c, "lyrics"))

\* What the branch of an intent takes from the text of the command.
Arguments(intent, c) ==
    [this |-> In("this", c),
     play |-> In("play", c),
     tag |-> IF intent = "tag_this" THEN OrEmpty(TagText(c, <<"tag this ", "add tag ">>))
             ELSE IF intent = "songs_tagged"
             THEN OrEmpty(TagText(c, <<"find songs tagged ", "play songs tagged ">>))
             ELSE "",
     category |-> IF intent = "tag_this"
                  THEN TagCategory(OrEmpty(TagText(c, <<"tag this ", "add tag ">>)))
                  ELSE "mood",
     request |-> IF intent = "play_by_tags" THEN RequestedTag(c) ELSE <<>>,
     playlist |-> PlaylistName(intent, c),
     artist |-> IF intent = "like" THEN LikedArtist(c)
                ELSE IF intent # "play_artist_collection" THEN ""
                ELSE IF In("play me some", c) THEN Strip(Remove(c, "play me some"))
                ELSE Strip(Remove(c, "play some")),
     tagged |-> /\ intent = "play_artist_collection"
                /\ AnyIn({"music", "song", "track"},
                         IF In("play me some", c) THEN Strip(Remove(c, "play me some"))
                         ELSE Strip(Remove(c, "play some"))),
     relationship |-> IF intent = "add_relationship" THEN ParsedRelationship(c) ELSE <<>>,
     lyric |-> IF intent = "lyric_search" THEN LyricKind(LyricFragment(c)) ELSE "none"]

\* The writes of the intents.
WriteFavorite(artist_name) == [op |-> "add_favorite_artist", artist_name |-> artist_name]
WriteTag(entity_name, tag_category, tag_value) ==
    [op |-> "add_tag", entity_name |-> entity_name, tag_category |-> tag_category,
     tag_value |-> tag_value]
WriteRelationship(source, target, relationship_type, notes) ==
    [op |-> "add_relationship", source |-> source, target |-> target,
     relationship_type |-> relationship_type, notes |-> notes]
WriteHistory(track_name, artist_name) ==
    [op |-> "log_play_history", track_name |-> track_name, artist_name |-> artist_name]
WriteGenres(artist_name) == [op |-> "analysis", artist_name |-> artist_name]

\* The playback controls: next_track, previous_track and resume_playback query the
\* player after their script, pause_playback does not.
Control(e, queries, text) ==
    IF ~e.player_ok THEN Done(<<"run_applescript">>, "error", "Failed", NoWrite, <<>>)
    ELSE Done(<<"run_applescript">> \o (IF queries THEN QueryCalls ELSE <<>>),
              "ok", text, NoWrite, <<>>)

\* The intents that start with current = self.get_current_track().
TrackIntent(intent, command, a, e) ==
    LET track == Track(e)
        used == <<track>>
        stopped(text) == Done(QueryCalls, "error", text, NoWrite, used)
    IN  CASE intent = "sync" ->
                IF IsPlayingTrack(track)
                THEN Done(QueryCalls \o analyze_current_music(e).calls, "ok",
                          "Manual sync completed",
                          IF analyze_current_music(e).ok THEN WriteGenres(track.artist)
                          ELSE NoWrite, used)
                ELSE stopped("No track currently playing to sync")
          [] intent = "whats_playing" ->
                IF IsPlayingTrack(track)
                THEN Done(QueryCalls, "ok", "Now playing", NoWrite, used)
                ELSE Done(QueryCalls, "info", "status", NoWrite, used)
          [] intent = "like" ->
                IF IsPlayingTrack(track)
                THEN Done(QueryCalls \o <<"add_favorite_artist">>,
                          IF AddFavoriteResult(
                                favorite_artists,
                                InsertOrIgnoreFavorite(favorite_artists, track.artist), e.ok)
                          THEN "ok" ELSE "info",
                          "favorites", WriteFavorite(track.artist), used)
                ELSE stopped("No track currently playing to like")
          [] intent = "tag_this" ->
                IF ~IsPlayingTrack(track) THEN stopped("No track currently playing to tag")
                ELSE IF a.tag = ""
                THEN stopped("Could not extract tag")
                ELSE Done(QueryCalls \o <<"add_tag">>,
                          IF e.ok THEN "ok" ELSE "error",
                          IF e.ok THEN "Tagged" ELSE "Failed to add tag",
                          WriteTag(track.name, a.category, Text(a.tag)), used)
          [] intent = "show_tags" ->
                IF ~IsPlayingTrack(track)
                THEN stopped("No track currently playing to show tags for")
                ELSE Done(QueryCalls \o <<"get_tags_for_entity">>, "ok",
                          IF e.ok /\ \E r \in Range(tags) :
                                        r.entity_type = "track" /\ r.entity_name = track.name
                          THEN "Tags for" ELSE "No tags found for",
                          NoWrite, used)
          [] intent = "analysis" ->
                IF IsPlayingTrack(track)
                THEN Done(QueryCalls \o analyze_current_music(e).calls,
                          IF analyze_current_music(e).ok THEN "ok" ELSE "error",
                          "analysis",
                          IF analyze_current_music(e).ok THEN WriteGenres(track.artist)
                          ELSE NoWrite, used)
                ELSE stopped("No track currently playing to analyze")
          [] intent = "add_relationship" ->
                IF ~IsPlayingTrack(track)
                THEN stopped("No track currently playing to add relationship for")
                ELSE IF a.relationship = <<>> \/ "" \in Range(a.relationship)
                THEN stopped("Could not parse relationship")
                ELSE Done(QueryCalls \o <<"add_relationship">>,
                          IF e.ok THEN "ok" ELSE "error",
                          IF e.ok THEN "Added relationship" ELSE "Failed to add relationship",
                          WriteRelationship(
                             [type |-> "track", name |-> track.name, artist |-> track.artist],
                             [type |-> "track", name |-> Text(a.relationship[2]),
                              artist |-> Text(a.relationship[3])],
                             a.relationship[1], <<command>>),
                          used)
          [] intent = "show_relationships" ->
                IF ~IsPlayingTrack(track)
                THEN stopped("No track currently playing to show relationships for")
                ELSE Done(QueryCalls \o <<"get_relationships_for_entity">>, "ok",
                          IF e.ok /\ UnionAll(musical_relationships,
                                              [type |-> "track", name |-> track.name,
                                               artist |-> track.artist]) # <<>>
                          THEN "Relationships for" ELSE "No relationships found for",
                          NoWrite, used)
          [] OTHER ->   \* "lyrics", a branch no command reaches
                IF IsPlayingTrack(track)
                THEN Done(QueryCalls \o <<"get_track_lyrics">>,
                          IF e.catalog = "found" THEN "ok" ELSE "error", "lyrics",
                          NoWrite, used)
                ELSE stopped("No track currently playing")

\* The intents that play, search or list.
PlayIntent(intent, a, e, playlist, listed) ==
    LET answer(calls, ok, yes, no, write) ==
            Done(calls, IF ok THEN "ok" ELSE "error", IF ok THEN yes ELSE no,
                 IF ok THEN write ELSE NoWrite, <<>>)
        tracks(category, tag) ==
            IF e.ok THEN SelectEntitiesByTag(tags, category, Text(tag), "track")
            ELSE <<>>
    IN  CASE intent = "favorites" ->
                Done(<<"get_favorite_artists">>,
                     IF e.ok /\ favorite_artists # <<>> THEN "ok" ELSE "info",
                     "favorite artists", NoWrite, <<>>)
          [] intent = "songs_tagged" ->
                LET reads == IF tracks("mood", a.tag) # <<>> THEN 1
                             ELSE IF tracks("energy", a.tag) # <<>> THEN 2 ELSE 3
                    found == IF reads = 1 THEN tracks("mood", a.tag)
                             ELSE IF reads = 2 THEN tracks("energy", a.tag)
                             ELSE tracks("genre", a.tag)
                    looked == [i \in 1..reads |-> "get_entities_by_tag"]
                IN  IF a.tag = ""
                    THEN Done(<<>>, "error", "Could not extract tag", NoWrite, <<>>)
                    ELSE IF found = <<>>
                    THEN Done(looked, "error", "No songs found with tag", NoWrite, <<>>)
                    ELSE IF ~a.play
                    THEN [Done(looked, "ok", "Songs tagged", NoWrite, <<>>)
                             EXCEPT !.message =
                                @ \o <<[i \in 1..(IF Len(found) < 10 THEN Len(found) ELSE 10)
                                           |-> found[i].entity_name]>>]
                    ELSE IF ~search_track_fuzzy(e).ok
                    THEN Done(looked \o search_track_fuzzy(e).calls, "error",
                              "Could not find track", NoWrite, <<>>)
                    ELSE answer(looked \o search_track_fuzzy(e).calls \o play_track(e).calls,
                                play_track(e).ok, "Playing tagged song", "Failed to play",
                                NoWrite)
          [] intent = "shuffle_liked" ->
                IF e.catalog = "unavailable"
                THEN Done(<<>>, "error", "Could not access your liked songs", NoWrite, <<>>)
                ELSE IF e.catalog # "found"
                THEN Done(<<"shuffle_liked_songs">>, "error",
                          "Could not access your liked songs", NoWrite, <<>>)
                ELSE answer(<<"shuffle_liked_songs">> \o play_track(e).calls
                               \o (IF play_track(e).ok THEN <<"log_play_history">> ELSE <<>>),
                            play_track(e).ok, "Now shuffling your liked songs",
                            "Could not access your liked songs",
                            WriteHistory(FoundTrack.name, FoundTrack.artist))
          [] intent = "shuffle_playlist" ->
                IF a.playlist = ""
                THEN Done(<<>>, "error", "Please specify a playlist name", NoWrite, <<>>)
                ELSE answer(shuffle_playlist_by_name(e, playlist).calls,
                            shuffle_playlist_by_name(e, playlist).ok,
                            "Now shuffling playlist", "Could not find or shuffle playlist",
                            NoWrite)
          [] intent = "list_playlists" ->
                Done(<<"get_playlists">>, IF e.ok /\ playlists # <<>> THEN "ok" ELSE "info",
                     "playlists", NoWrite, <<>>)
          [] intent = "play_playlist" ->
                IF a.playlist = ""
                THEN Done(<<>>, "error", "Please specify a playlist name", NoWrite, <<>>)
                ELSE answer(play_playlist_by_name(e, playlist).calls,
                            play_playlist_by_name(e, playlist).ok,
                            "Now playing playlist", "Could not find or play playlist",
                            NoWrite)
          [] intent = "random_from" ->
                IF a.playlist = ""
                THEN Done(<<>>, "error", "Please specify a playlist name", NoWrite, <<>>)
                ELSE IF listed = <<>>
                THEN Done(<<"get_playlist_tracks">>, "error",
                          "Could not find tracks in playlist", NoWrite, <<>>)
                ELSE answer(<<"get_playlist_tracks">> \o play_track(e).calls
                               \o (IF play_track(e).ok THEN <<"log_play_history">> ELSE <<>>),
                            play_track(e).ok, "Playing random track from playlist",
                            "Could not find tracks in playlist",
                            WriteHistory(listed[1], <<"Unknown">>))
          [] intent = "lyric_search" ->
                answer(search_by_lyrics(a.lyric, e).calls, search_by_lyrics(a.lyric, e).ok,
                       "Found", "Could not find song with lyrics", NoWrite)
          [] intent = "play_by_tags" ->
                IF a.request = <<>>
                THEN Done(<<>>, "error", "Could not identify the type of music", NoWrite, <<>>)
                ELSE LET entities ==
                             IF e.ok
                             THEN SelectEntitiesByTag(tags, a.request[1],
                                                      Text(a.request[2]), None)
                             ELSE <<>>
                         has(type) == \E i \in 1..Len(entities) : entities[i].entity_type = type
                         by_track == has("track") /\ search_track_fuzzy(e).ok /\ play_track(e).ok
                         first == IF ~has("track") THEN <<>>
                                  ELSE search_track_fuzzy(e).calls
                                       \o (IF search_track_fuzzy(e).ok THEN play_track(e).calls
                                           ELSE <<>>)
                     IN  IF entities = <<>>
                         THEN Done(<<"get_entities_by_tag">>, "error",
                                   "Could not find any music", NoWrite, <<>>)
                         ELSE IF by_track
                         THEN Done(<<"get_entities_by_tag">> \o first \o <<"log_play_history">>,
                                   "ok", "Now playing some music",
                                   WriteHistory(FoundTrack.name, FoundTrack.artist), <<>>)
                         ELSE answer(<<"get_entities_by_tag">> \o first
                                        \o (IF has("artist") THEN play_artist_collection(e).calls
                                            ELSE <<>>),
                                     has("artist") /\ play_artist_collection(e).ok,
                                     "Now playing some music", "Could not find any music",
                                     NoWrite)
          [] intent = "play_artist_collection" ->
                IF a.tagged
                THEN Done(<<>>, "error", "Could not understand the request", NoWrite, <<>>)
                ELSE answer(play_artist_collection(e).calls, play_artist_collection(e).ok,
                            "Now playing some", "Could not find collection for", NoWrite)
          [] intent = "play" ->
                IF ~search_track_fuzzy(e).ok
                THEN Done(search_track_fuzzy(e).calls, "error", "Could not find track",
                          NoWrite, <<>>)
                ELSE answer(search_track_fuzzy(e).calls \o play_track(e).calls,
                            play_track(e).ok, "Now playing", "Failed to play", NoWrite)
          [] OTHER ->   \* "search"
                answer(search_track_fuzzy(e).calls, search_track_fuzzy(e).ok,
                       "Found", "Could not find", NoWrite)

\* The message that follows the last branch.
HelpMessage == <<"help", "I don't understand">>

CurrentTrackIntents ==
    {"sync", "whats_playing", "like", "tag_this", "show_tags", "analysis",
     "add_relationship", "show_relationships", "lyrics"}

\* The body of the branch of an intent.
Body(intent, command, a, e, playlist, listed) ==
    CASE intent = "next_track" -> Control(e, TRUE, "Skipped to")
      [] intent = "previous_track" -> Control(e, TRUE, "Skipped to")
      [] intent = "pause" -> Control(e, FALSE, "Playback paused")
      [] intent = "resume" -> Control(e, TRUE, "Resumed")
      [] intent = "like" /\ ~a.this ->
            IF a.artist = ""
            THEN Done(<<>>, "error", "Could not determine which artist to like", NoWrite, <<>>)
            ELSE Done(<<"add_favorite_artist">>,
                      IF AddFavoriteResult(
                            favorite_artists,
                            InsertOrIgnoreFavorite(favorite_artists, Text(a.artist)), e.ok)
                      THEN "ok" ELSE "info",
                      "favorites", WriteFavorite(Text(a.artist)), <<>>)
      [] intent \in CurrentTrackIntents /\ (intent = "like" => a.this) ->
            TrackIntent(intent, command, a, e)
      [] intent = "help" -> Done(<<>>, HelpMessage[1], HelpMessage[2], NoWrite, <<>>)
      [] OTHER -> PlayIntent(intent, a, e, playlist, listed)

\* Bound: the number of commands handled, any text.
MaxCommands == 1
\* Bound: the number of commands handled, one after another, that use the current track.
MaxTrackCommands == 2

\* The add_tag calls of _analyze_current_music as one write of the tags, every call
\* committing or none.
AnalysisTags(artist_name, genres, ok) ==
    \E after \in {AutoTag(tags, artist_name, genres, [i \in 1..2 |-> ok], 1)} :
       /\ tags' = after
       /\ firstInserted' =
             firstInserted \o
             SelectSeq([i \in 1..Len(after) |-> TagKey(after[i])],
                       LAMBDA k : k \notin Range(firstInserted))
       /\ lastWrite' =
             [k \in TagKeys |->
                 IF ok /\ \E i \in 1..Len(genres) : k = <<"artist", artist_name, "genre", genres[i]>>
                 THEN LET i == CHOOSE i \in 1..Len(genres) :
                                  k = <<"artist", artist_name, "genre", genres[i]>>
                      IN  <<[confidence |-> 10 - (i - 1), added_by |-> "api"]>>
                 ELSE lastWrite[k]]
       /\ UNCHANGED <<tagAdd, tagQuery, tagResult>>

\* The write of a branch, by the methods of the store.
Apply(write, e) ==
    IF write.op = "add_favorite_artist"
    THEN /\ add_favorite_artist(write.artist_name, e.ok)
         /\ UNCHANGED <<storeVars, relationshipVars>>
    ELSE IF write.op = "add_tag"
    THEN /\ add_tag("track", write.entity_name, write.tag_category, write.tag_value,
                    [confidence |-> 10, added_by |-> "user"], e.ok)
         /\ UNCHANGED <<favVars, relationshipVars>>
    ELSE IF write.op = "add_relationship"
    THEN /\ \E now \in {LatestDate(musical_relationships),
                        LatestDate(musical_relationships) + 1} \cap 1..MaxDate :
               add_relationship(write.source, write.target, write.relationship_type,
                                [confidence |-> 10, notes |-> write.notes,
                                 added_by |-> "user"], now, e.ok)
         /\ UNCHANGED <<storeVars, favVars>>
    ELSE IF write.op = "log_play_history"
    THEN /\ log_play_history(write.track_name, write.artist_name, e.ok)
         /\ UNCHANGED <<storeVars, relationshipVars>>
    ELSE IF write.op = "analysis"
    THEN /\ AnalysisTags(write.artist_name, e.genres, e.ok)
         /\ UNCHANGED <<favVars, relationshipVars>>
    ELSE UNCHANGED <<storeVars, favVars, relationshipVars>>

\* The tables of the store.
Tables ==
    <<tags, favorite_artists, play_history, playlists, playlist_tracks,
      musical_relationships>>

\* handle_command(command) for a command of texts, the max-th call at most, with
\* the player, the catalog and the store as one of environments has them: the
\* branch of the chain, its calls, its write and what it returns.  playlist and
\* listed are what the store finds for the playlist the command names.
handle_command(texts, max, environments) ==
    /\ cmd.n < max
    /\ UNCHANGED <<playlistVars, trackVars, running, pollerVars, ipcVars, lifecycleVars,
                   likeLog, playCall>>
    /\ \E command \in texts :
       \E intent \in {Intent(lower(command))} :
       \E a \in {Arguments(intent, lower(command))} :
       \E e \in environments :
       \E playlist \in (IF e.ok /\ a.playlist # ""
                        THEN FindPlaylistResults(playlists, Text(a.playlist), TRUE)
                        ELSE {<<>>}) :
       \E listed \in (IF playlist # <<>>
                      THEN SelectPlaylistTracks(playlist_tracks, playlists,
                                                playlist[1].spotify_id, 100)
                      ELSE {<<>>}) :
       \E b \in {Body(intent, command, a, e, playlist, listed)} :
       \E raised \in {Escapes(b.calls, e) # <<>>} :
          /\ Apply(IF raised THEN NoWrite ELSE b.write, e)
          /\ cmd' = [op |-> "handle_command", n |-> cmd.n + 1, command |-> command,
                     intent |-> intent,
                     fresh |-> IF b.used # <<>> THEN <<get_current_track(e.result)>>
                               ELSE <<>>,
                     used |-> b.used,
                     earlier |-> IF cmd.op = "handle_command" THEN cmd.used ELSE <<>>,
                     calls |-> b.calls,
                     failed |-> {call \in Range(b.calls) : Fails(call, e)},
                     message |-> IF raised THEN <<>> ELSE b.message,
                     raised |-> raised,
                     changed |-> Tables' # Tables]

\* A command given to the processor directly (the agent's own command line).
HandleCommand ==
    /\ handle_command(CommandInputs, MaxCommands, Environments)
    /\ UNCHANGED routed

\* The commands whose intent uses the track now playing.
TrackCommands ==
    {"like this", "tag this as chill", "show tags", "what genre is this",
     "this is a cover of hurt by cash", "show relationships"}

\* Commands on the current track, one after another.
TrackCommand ==
    /\ handle_command(TrackCommands, MaxTrackCommands, Environments)
    /\ UNCHANGED routed

InitProcessor ==
    /\ cmd = [op |-> "none", n |-> 0]
    /\ routed = [op |-> "none", n |-> 0]

\* Bound: the number of commands of a sitting that tags tracks and asks for them.
MaxTagCommands == 3

\* The commands of such a sitting.
TagCommands ==
    {"tag this as rock", "tag this as intense rock", "tag this as playful",
     "find songs tagged rock", "find songs tagged playful"}

\* Two tracks of one artist, 'a' and 'b' by 'c', one of them playing; the player
\* and the store work and there is no catalog.
TaggingEnvironments ==
    {[result |-> r, player_ok |-> TRUE, catalog |-> "unavailable", genres |-> <<>>,
      ok |-> TRUE] :
        r \in {<<"a", Separator, "c">>, <<"b", Separator, "c">>}}

\* Commands that tag the playing track and ask for the tracks of a tag.
TagCommand ==
    /\ handle_command(TagCommands, MaxTagCommands, TaggingEnvironments)
    /\ UNCHANGED routed

-----------------------------------------------------------------------------
(* The routing of a request in _handle_client: ping, status, shutdown, the music
   commands and the rest.  A request is the command string of its envelope. *)

\* The commands of the requests.
RequestCommands ==
    {"ping", "status", "shutdown", "bogus", "", "music", "Music:pause", "music:sync",
     "music:", "music:hello", "music:pause", "music:like this", "music:Play creep",
     "music:tag this as chill", "music:play some mellow music", "music:show favorites",
     "music:what's playing", "music:lyrics of creep"}

\* Bound: the number of requests routed.
MaxRequests == 2

\* command.startswith(prefix)
StartsWith(command, prefix) ==
    /\ Len(command) >= Len(prefix)
    /\ SubSeq(command, 1, Len(prefix)) = prefix

\* _manual_sync(): the query of the player and, when a track is playing, its
\* analysis; what it calls, what it writes and the response it returns.
ManualSync(e) ==
    IF ~IsPlayingTrack(get_current_track(e.result))
    THEN [calls |-> QueryCalls, write |-> NoWrite,
          response |-> [status |-> "error", message |-> <<"No track currently playing">>]]
    ELSE [calls |-> QueryCalls \o analyze_current_music(e).calls,
          write |-> IF analyze_current_music(e).ok
                    THEN WriteGenres(get_current_track(e.result).artist)
                    ELSE NoWrite,
          response |-> [status |-> "success", message |-> <<"Manual sync completed">>]]

\* What a handler did with a request: the texts it gave to handle_command, the
\* methods of the agent it called and the response it sent.
Routed(command, passed, calls, sent, changed) ==
    [op |-> "request", n |-> routed.n + 1, command |-> command, passed |-> passed,
     calls |-> calls, response |-> sent, changed |-> changed]

\* One request of a connection, from the parsed envelope to the response.
Route ==
    /\ running
    /\ routed.n < MaxRequests
    /\ \E command \in RequestCommands :
          IF command = "ping"
          THEN /\ UNCHANGED <<storeVars, favVars, playlistVars, running, pollerVars, ipcVars,
                              likeLog, playCall, cmd, lifecycleVars, dataVars>>
               /\ routed' = Routed(command, <<>>, <<>>, Pong, FALSE)
          ELSE IF command = "status"
          THEN /\ UNCHANGED <<storeVars, favVars, playlistVars, running, pollerVars, ipcVars,
                              likeLog, playCall, cmd, lifecycleVars, dataVars>>
               /\ \E result \in CommandOutputs :
                     routed' = Routed(command, <<>>, QueryCalls,
                                      GetStatus(get_current_track(result)), FALSE)
          ELSE IF command = "shutdown"
          THEN /\ UNCHANGED <<storeVars, favVars, playlistVars, pollerVars, ipcVars,
                              likeLog, playCall, cmd, lifecycleVars, dataVars>>
               /\ running' = FALSE
               /\ routed' = Routed(command, <<>>, <<>>,
                                   [status |-> "success", message |-> <<"shutting down">>],
                                   FALSE)
          ELSE IF StartsWith(command, "music:")
          THEN \E music_command \in {SubSeq(command, 7, Len(command))} :
                  IF music_command = "sync"
                  THEN \E e \in Environments :
                          /\ UNCHANGED <<playlistVars, trackVars, running, pollerVars,
                                         ipcVars, lifecycleVars, likeLog, playCall, cmd>>
                          /\ Apply(ManualSync(e).write, e)
                          /\ routed' = Routed(command, <<>>, ManualSync(e).calls,
                                              ManualSync(e).response, Tables' # Tables)
                  ELSE /\ handle_command({music_command}, MaxRequests, Environments)
                       /\ routed' = Routed(command, <<music_command>>, <<"handle_command">>,
                                           IF cmd'.raised
                                           THEN [status |-> "error", message |-> <<"str(e)">>]
                                           ELSE [status |-> "success",
                                                 message |-> cmd'.message],
                                           cmd'.changed)
          ELSE /\ UNCHANGED <<storeVars, favVars, playlistVars, running, pollerVars, ipcVars,
                              likeLog, playCall, cmd, lifecycleVars, dataVars>>
               /\ routed' = Routed(command, <<>>, <<>>,
                                   [status |-> "error",
                                    message |-> <<"Unknown command: ", command>>],
                                   FALSE)

-----------------------------------------------------------------------------
(* A client that keeps its connection: it writes to the socket itself, reads the
   response and may send again, as the loop of _handle_client allows.  What it
   sends is an envelope or bytes that are none. *)

\* What a client sends in the place of a request: the envelope, its first bytes
\* only, bytes that are not UTF-8, a JSON document that is not an object.
RawPayloads == {"envelope", "truncated", "not_utf8", "not_object"}

\* The commands of the envelopes such a client sends.
RawCommands == {[text |-> t, pad |-> 0] : t \in {"ping", "status", "bogus"}}

\* Bound: the number of requests a client sends on one connection.
MaxRawRequests == 2

\* The number of bytes the client writes.
PayloadLength(command) ==
    IF command.payload = "truncated" THEN EnvelopeLength(command) - 1
    ELSE EnvelopeLength(command)

\* sock.send(payload) of a client that has no request waiting for its response
RawSend(c, command, payload) ==
    /\ cpc[c] = "connected"
    /\ Len(requests[c]) < MaxRawRequests
    /\ payload # "envelope" => command.text = "ping"
    /\ IF ServerGone(c)
       THEN /\ cpc' = [cpc EXCEPT ![c] = "done"]
            /\ reply' = [reply EXCEPT ![c] = <<ClientError>>]
            /\ command.text = "ping" /\ payload = "envelope"
            /\ UNCHANGED <<requests, inbuf>>
       ELSE \E sent \in {[text |-> command.text, pad |-> command.pad,
                          payload |-> payload]} :
               /\ cpc' = [cpc EXCEPT ![c] = "sent"]
               /\ requests' = [requests EXCEPT ![c] = Append(@, sent)]
               /\ inbuf' = [inbuf EXCEPT
                              ![c] = Append(@, <<Len(requests[c]) + 1, 1,
                                                 PayloadLength(sent)>>)]
               /\ UNCHANGED reply
    /\ UNCHANGED <<pc, response, outbox, running,
                   storeVars, favVars, playlistVars, pollerVars, restVars>>

\* sock.recv(4096) of that client: the response to what it sent last, or nothing
\* when the daemon end is gone; the socket stays open.
RawReceive(c) ==
    /\ cpc[c] = "sent"
    /\ Len(outbox[c]) = Len(requests[c]) \/ ServerGone(c)
    /\ IF Len(outbox[c]) = Len(requests[c])
       THEN /\ reply' = [reply EXCEPT ![c] = <<outbox[c][Len(outbox[c])].body>>]
            /\ cpc' = [cpc EXCEPT ![c] = "connected"]
       ELSE /\ reply' = [reply EXCEPT ![c] = <<ClientError>>]
            /\ cpc' = [cpc EXCEPT ![c] = "done"]
    /\ UNCHANGED <<pc, requests, inbuf, response, outbox, running,
                   storeVars, favVars, playlistVars, pollerVars, restVars>>

\* sock.close() of that client
RawClose(c) ==
    /\ cpc[c] = "connected"
    /\ requests[c] # <<>>
    /\ cpc' = [cpc EXCEPT ![c] = "done"]
    /\ UNCHANGED <<pc, requests, inbuf, response, outbox, reply, running,
                   storeVars, favVars, playlistVars, pollerVars, restVars>>

-----------------------------------------------------------------------------
(* play_track, step by step: the play script, then the query that verifies it *)

\* Bound: the number of calls of play_track.
MaxPlays == 2

TrackUris == {"spotify:track:1", "spotify:track:2"}

\* What run_applescript returns for the play script: the empty output of the
\* script, or the text of one of its three except branches.
PlayResults == {<<>>, ErrorText, <<"X", "error">>, <<"X", "unexpected">>}

\* play_track(track_uri) is called; before is the call before it, for the caller
\* that calls again.
PlayTrackCall ==
    /\ playCall.at = "idle"
    /\ playCall.n < MaxPlays
    /\ \E track_uri \in TrackUris :
          playCall' = [at |-> "script", n |-> playCall.n + 1, track_uri |-> track_uri,
                       issued |-> 0, verified |-> 0, script |-> <<>>, current |-> <<>>,
                       returned |-> <<>>,
                       before |-> IF playCall.n = 0 THEN <<>>
                                  ELSE <<[track_uri |-> playCall.track_uri,
                                          script |-> playCall.script,
                                          current |-> playCall.current,
                                          returned |-> playCall.returned]>>]
    /\ UNCHANGED <<storeVars, favVars, playlistVars, running, pollerVars, ipcVars,
                   likeLog, cmd, routed, lifecycleVars, dataVars>>

\* result = self.run_applescript(script) and the test of the result, with a second
\* try of the script after a failure.
PlayTrackScriptRetry ==
    /\ playCall.at = "script"
    /\ \E result \in PlayResults :
          playCall' =
             IF "X" \in Range(result) /\ playCall.issued >= 1
             THEN [playCall EXCEPT !.at = "idle", !.issued = @ + 1, !.script = <<result>>,
                                   !.returned = <<FALSE>>]
             ELSE IF "X" \in Range(result)
             THEN [playCall EXCEPT !.issued = @ + 1, !.script = <<result>>]
             ELSE [playCall EXCEPT !.at = "verify", !.issued = @ + 1,
                                   !.script = <<result>>]
    /\ UNCHANGED <<storeVars, favVars, playlistVars, running, pollerVars, ipcVars,
                   likeLog, cmd, routed, lifecycleVars, dataVars>>

\* result = self.run_applescript(script); if "X" in result: return False
PlayTrackScript ==
    /\ playCall.at = "script"
    /\ \E result \in PlayResults :
          playCall' =
             IF "X" \in Range(result)
             THEN [playCall EXCEPT !.at = "idle", !.issued = @ + 1, !.script = <<result>>,
                                   !.returned = <<FALSE>>]
             ELSE [playCall EXCEPT !.at = "verify", !.issued = @ + 1,
                                   !.script = <<result>>]
    /\ UNCHANGED <<storeVars, favVars, playlistVars, running, pollerVars, ipcVars,
                   likeLog, cmd, routed, lifecycleVars, dataVars>>

\* time.sleep(2); current = self.get_current_track(); return whether it is playing
PlayTrackVerify ==
    /\ playCall.at = "verify"
    /\ \E result \in CommandOutputs :
       \E current \in {get_current_track(result)} :
          playCall' = [playCall EXCEPT !.at = "idle", !.verified = @ + 1,
                                       !.current = <<current>>,
                                       !.returned = <<IsPlayingTrack(current)>>]
    /\ UNCHANGED <<storeVars, favVars, playlistVars, running, pollerVars, ipcVars,
                   likeLog, cmd, routed, lifecycleVars, dataVars>>

InitPlayTrack == playCall = [at |-> "idle", n |-> 0]
-----------------------------------------------------------------------------
(* Clients that go away in the middle of a request, beside the handlers of the
   other connections and the polling loop *)

\* The request whose handling writes to the store.
LikeRequest == [text |-> "music:like this", pad |-> 0]

\* The requests of these clients.
DisconnectCommands == {[text |-> "shutdown", pad |-> 0], LikeRequest}

\* The client of c has sent its request and is gone without reading the response:
\* its process was killed, or its socket failed and was closed.
ClientAbort(c) ==
    /\ cpc[c] = "sent"
    /\ cpc' = [cpc EXCEPT ![c] = "done"]
    /\ UNCHANGED <<pc, requests, inbuf, response, outbox, reply, running,
                   storeVars, favVars, playlistVars, pollerVars, restVars>>

\* The request the handler of c reads next is LikeRequest.
LikeArrived(c) ==
    /\ inbuf[c] # <<>>
    /\ \E parsed \in {Loads(Take(inbuf[c], RecvBufSize), requests[c])} :
          parsed # <<>> /\ requests[c][parsed[1]] = LikeRequest

\* _handle_client from recv to the response it is about to send, for 'music:like
\* this': _handle_music_command gives 'like this' to handle_command, which asks the
\* player and, with a track playing, calls add_favorite_artist, whose write is
\* committed before it returns.  ok is whether the store executes the write.
HandlerLike(c) ==
    /\ pc[c] = "recv"
    /\ LikeArrived(c)
    /\ \E parsed \in {Loads(Take(inbuf[c], RecvBufSize), requests[c])} :
       \E result \in StatusOutputs, ok \in BOOLEAN :
       \E current \in {get_current_track(result)} :
          /\ IF current.status = PlayingStatus
             THEN add_favorite_artist(current.artist, ok)
             ELSE ok /\ UNCHANGED favVars
          /\ response' =
                [response EXCEPT
                   ![c] = <<[body |-> [status |-> "success",
                                       message |->
                                          IF current.status = PlayingStatus
                                          THEN LikeMessage(current.artist, favAdd'.result)
                                          ELSE <<"No track currently playing to like">>],
                             by |-> c, re |-> parsed[1]]>>]
    /\ inbuf' = [inbuf EXCEPT ![c] = Drop(@, RecvBufSize)]
    /\ pc' = [pc EXCEPT ![c] = "send"]
    /\ UNCHANGED <<cpc, requests, outbox, reply, running,
                   storeVars, playlistVars, pollerVars, restVars>>

\* The handler of c on every other request, and on the end of its connection.
HandlerOther(c) == ~LikeArrived(c) /\ HandlerReceive(c)

\* The client of c went away after its request, without a response read.
Disconnected(c) == cpc[c] = "done" /\ requests[c] # <<>> /\ reply[c] = <<>>

\* The pass of the polling loop that starts after a client went away, between two
\* connections: the handlers of the clients that are gone have ended.
PollStart ==
    /\ pollCur = <<>>
    /\ \E c \in Conns : Disconnected(c)
    /\ \A c \in Conns : cpc[c] = "start" \/ (cpc[c] = "done" /\ pc[c] = "closed")
    /\ PollQuery

-----------------------------------------------------------------------------
(* Specifications *)

Init ==
    /\ InitTags /\ InitFavorites /\ InitPlaylists /\ InitPoller /\ InitIPC
    /\ InitCommands /\ InitLifecycle /\ InitTracks /\ InitRelationships
    /\ InitProcessor
    /\ InitPlayTrack

\* any sequence of add_tag calls
NextTagWrites == AddTag
SpecTagWrites == Init /\ [][NextTagWrites]_vars

\* add_tag calls and lookups
NextTags == AddTag \/ GetEntitiesByTag
SpecTags == Init /\ [][NextTags]_vars

NextFavorites == AddFavoriteArtist \/ LogPlayHistory
SpecFavorites == Init /\ [][NextFavorites]_vars

NextPlaylists == StorePlaylist \/ FindPlaylistByName
SpecPlaylists == Init /\ [][NextPlaylists]_vars

\* the poller, until the daemon is stopped
NextPoller == PollQuery \/ PollCycle \/ Stop
SpecPoller == Init /\ [][NextPoller]_vars

\* The polling thread is scheduled and its sleep ends: a pass that can go on does.
SpecPollerLive ==
    Init /\ [][NextPoller]_vars /\ WF_vars(PollQuery) /\ WF_vars(PollCycle)

\* the clients and the handlers of the IPC server
NextIPC ==
    \E c \in Conns :
        \/ Connect(c)
        \/ Accept(c)
        \/ \E command \in Commands : ClientSend(c, command)
        \/ ClientReceive(c)
        \/ HandlerReceive(c)
        \/ HandlerSend(c)
SpecIPC == Init /\ [][NextIPC]_vars

\* the like command, with direct calls of add_favorite_artist in between
NextLike == LikeThis \/ AddFavoriteArtist
SpecLike == Init /\ [][NextLike]_vars

\* the daemon processes that are started, shut down and killed
NextLifecycle ==
    \E i \in Instances :
        \/ MainProbe(i)
        \/ ProbeUnlink(i)
        \/ \E agent \in BOOLEAN : StartSetup(i, agent)
        \/ SetupBind(i)
        \/ Shutdown(i)
        \/ StopUnlink(i)
        \/ FinallyStop(i)
        \/ Crash(i)
SpecLifecycle == Init /\ [][NextLifecycle]_vars

\* The playlist tables: a writer of track listings, playlist syncs and readers.
NextTracks ==
    \/ SyncPlaylist
    \/ StorePlaylistTracksBegin
    \/ StorePlaylistTracksStep
    \/ GetPlaylistTracks
SpecTracks == Init /\ [][NextTracks]_vars

NextRelationships == AddRelationship \/ GetRelationshipsForEntity
SpecRelationships == Init /\ [][NextRelationships]_vars

\* commands given to the command processor
NextCommands == HandleCommand
SpecCommands == Init /\ [][NextCommands]_vars

\* commands on the current track, one after another
NextSnapshot == TrackCommand
SpecSnapshot == Init /\ [][NextSnapshot]_vars

\* requests routed by a handler of the daemon
NextRouter == Route
SpecRouter == Init /\ [][NextRouter]_vars

\* clients that keep their connection, and the handlers of the IPC server
NextProtocol ==
    \E c \in Conns :
        \/ Connect(c)
        \/ Accept(c)
        \/ \E command \in RawCommands, payload \in RawPayloads : RawSend(c, command, payload)
        \/ RawReceive(c)
        \/ RawClose(c)
        \/ HandlerReceive(c)
        \/ HandlerSend(c)
SpecProtocol == Init /\ [][NextProtocol]_vars

\* calls of play_track
NextPlayTrack == PlayTrackCall \/ PlayTrackScript \/ PlayTrackVerify
SpecPlayTrack == Init /\ [][NextPlayTrack]_vars

\* commands that tag the playing track and ask for the tracks of a tag
NextTagging == TagCommand
SpecTagging == Init /\ [][NextTagging]_vars


\* clients that may go away before the response, the handlers, the poller
NextDisconnect ==
    \/ \E c \in Conns :
          \/ Connect(c)
          \/ Accept(c)
          \/ \E command \in DisconnectCommands : ClientSend(c, command)
          \/ ClientAbort(c)
          \/ ClientReceive(c)
          \/ HandlerLike(c)
          \/ HandlerOther(c)
          \/ HandlerSend(c)
    \/ PollStart
    \/ PollCycle
SpecDisconnect == Init /\ [][NextDisconnect]_vars

Next ==
    \/ NextTags \/ NextFavorites \/ NextPlaylists \/ NextPoller \/ NextIPC \/ NextLike
    \/ NextLifecycle \/ NextTracks \/ NextRelationships
Spec == Init /\ [][Next]_vars

-----------------------------------------------------------------------------
(* The store's claims *)

\* C1: after any sequence of add_tag calls the store holds at most one tag row per
\* key (entity_type, entity_name, category, value), and that row carries the
\* confidence and provenance of the most recent add_tag for that key (an add_tag
\* that raises writes nothing and returns False).
C1_TagUpsertLastWriteWins ==
    /\ \A i, j \in 1..Len(tags) : TagKey(tags[i]) = TagKey(tags[j]) => i = j
    /\ \A k \in TagKeys :
          lastWrite[k] # <<>> =>
              \E i \in 1..Len(tags) :
                  /\ TagKey(tags[i]) = k
                  /\ tags[i].confidence = lastWrite[k][1].confidence
                  /\ tags[i].added_by = lastWrite[k][1].added_by
    /\ \A i \in 1..Len(tags) : lastWrite[TagKey(tags[i])] # <<>>

\* A key was added, another key after it, and the first key added again with another
\* confidence and provenance: its row is the last one now.
C1_Witness ==
    /\ Len(tags) = 2
    /\ Len(firstInserted) = 2
    /\ TagKey(tags[2]) = firstInserted[1]
    /\ tags[2].confidence = 9
    /\ tags[2].added_by = "api"
    /\ tagAdd.op = "add_tag" /\ tagAdd.result

\* C2: add_favorite_artist returns True on the first add of a name and False on
\* every later add of it, and there is exactly one favorite row per name added
\* (calls in which the store raised aside: they add no row and return False).
C2_FavoriteAddOnce ==
    /\ \A i, j \in 1..Len(favorite_artists) :
          favorite_artists[i].artist_name = favorite_artists[j].artist_name => i = j
    /\ \A n \in ArtistNames : IsFavorite(favorite_artists, n) <=> n \in addedNames
    /\ (favAdd.op = "add_favorite_artist" /\ favAdd.ok) =>
          (favAdd.result <=> ~favAdd.earlier_add)
    /\ (favAdd.op = "add_favorite_artist" /\ favAdd.earlier_add) => ~favAdd.result

\* A name is added a second time, with another name stored as well.
C2_Witness ==
    /\ favAdd.op = "add_favorite_artist"
    /\ favAdd.ok
    /\ favAdd.earlier_add
    /\ ~favAdd.result
    /\ Len(favorite_artists) = 2

\* C3: in every step, every favorite keeps its row, and its play_count grows by the
\* number of play_history rows the step appends for its artist_name (1 for a
\* log_play_history of that artist, committed with the history row; 0 otherwise:
\* another artist's play, a rolled back call, an add_favorite_artist).
C3_PlayCountCountsPlays ==
    [][ /\ Len(play_history') >= Len(play_history)
        /\ SubSeq(play_history', 1, Len(play_history)) = play_history
        /\ Len(favorite_artists') >= Len(favorite_artists)
        /\ \A i \in 1..Len(favorite_artists) :
              /\ favorite_artists'[i].artist_name = favorite_artists[i].artist_name
              /\ favorite_artists'[i].play_count =
                    favorite_artists[i].play_count
                    + Cardinality({k \in (Len(play_history) + 1)..Len(play_history') :
                          play_history'[k].artist_name = favorite_artists[i].artist_name})
      ]_vars

\* A favorite was played, another favorite was not, and the played one is added again.
C3_Witness ==
    /\ favAdd.op = "add_favorite_artist"
    /\ favAdd.earlier_add
    /\ \E i, j \in 1..Len(favorite_artists) :
          /\ favorite_artists[i].artist_name = favAdd.artist_name
          /\ favorite_artists[i].play_count = 1
          /\ favorite_artists[j].play_count = 0
    /\ Len(play_history) = 2

\* C4: find_playlist_by_name returns a stored playlist whose name equals the query
\* case-insensitively when one exists; otherwise, among the stored playlists whose
\* name contains the query as a case-insensitive substring, one with the shortest
\* name; and None when no name contains the query.
C4_FindPlaylistByName ==
    (plQuery.op = "find_playlist_by_name" /\ plQuery.ok /\ plQuery.fuzzy) =>
        LET exact == {r \in Range(playlists) : Lower(r.name) = Lower(plQuery.name)}
            containing == {r \in Range(playlists) : Contains(r.name, plQuery.name)}
        IN  IF exact # {} THEN plResult # <<>> /\ plResult[1] \in exact
            ELSE IF containing # {}
                 THEN /\ plResult # <<>>
                      /\ plResult[1] \in containing
                      /\ \A o \in containing : Len(plResult[1].name) <= Len(o.name)
                 ELSE plResult = <<>>

\* C5: get_entities_by_tag returns exactly the stored tags of the category whose
\* value contains the query value as a case-insensitive substring (of the entity
\* type, when one is given), each once, in order of non-increasing confidence.
C5_LookupBySubstring ==
    (tagQuery.op = "get_entities_by_tag" /\ tagQuery.ok) =>
        LET wanted == {r \in Range(tags) :
                          /\ r.tag_category = tagQuery.tag_category
                          /\ Contains(r.tag_value, tagQuery.tag_value)
                          /\ (tagQuery.entity_type # None =>
                                 r.entity_type = tagQuery.entity_type)}
        IN  /\ \E s \in Orderings(wanted) :
                  tagResult = [i \in 1..Len(s) |-> EntityOfRow(s[i], tagQuery.entity_type)]
            /\ \A i, j \in 1..Len(tagResult) :
                  i < j => tagResult[i].confidence >= tagResult[j].confidence

\* C6: the tags a lookup matches are returned by non-increasing confidence, and those
\* of equal confidence in the order in which their keys were first inserted.
C6_TiesByFirstInsertion ==
    (tagQuery.op = "get_entities_by_tag" /\ tagQuery.ok) =>
        LET hit == {r \in Range(tags) :
                       TagSelected(r, tagQuery.tag_category, tagQuery.tag_value,
                                   tagQuery.entity_type)}
            Earlier(r1, r2) ==
                \/ r1.confidence > r2.confidence
                \/ /\ r1.confidence = r2.confidence
                   /\ Position(firstInserted, TagKey(r1)) < Position(firstInserted, TagKey(r2))
        IN  \E s \in Orderings(hit) :
                /\ \A i, j \in 1..Len(s) : i < j => Earlier(s[i], s[j])
                /\ tagResult = [i \in 1..Len(s) |-> EntityOfRow(s[i], tagQuery.entity_type)]

-----------------------------------------------------------------------------
(* The poller's claims *)

IsPlaying(track) == track.status = PlayingStatus
TrackPair(track) == <<track.name, track.artist>>

\* C7: whenever a poll cycle observes Playing(k2) and the cycle before it observed
\* NotPlaying, or Playing(k1) with a (track_name, artist_name) pair k1 other than k2,
\* the cycle detects a change and triggers the enrichment, for every pair of names.
C7_ChangeDetected ==
    (/\ pollPrev # <<>>
     /\ pollCur # <<>>
     /\ IsPlaying(pollCur[1])
     /\ (~IsPlaying(pollPrev[1]) \/ TrackPair(pollPrev[1]) # TrackPair(pollCur[1])))
        => pollTriggered

\* C8: a poll cycle that observes Playing with the (track, artist) pair the cycle
\* before it observed triggers no enrichment and makes no tag or history write.
C8_UnchangedTrackNoEnrichment ==
    (/\ pollPrev # <<>>
     /\ pollCur # <<>>
     /\ IsPlaying(pollPrev[1])
     /\ IsPlaying(pollCur[1])
     /\ TrackPair(pollPrev[1]) = TrackPair(pollCur[1]))
        => (~pollTriggered /\ pollWrites = 0)

\* Two cycles in a row observed the same playing track, after the first of them had
\* tagged its artist.
C8_Witness ==
    /\ pollPrev # <<>>
    /\ pollCur # <<>>
    /\ IsPlaying(pollPrev[1])
    /\ pollPrev = pollCur
    /\ ~pollTriggered
    /\ Len(tags) = 2

-----------------------------------------------------------------------------
(* The IPC server's claims *)

\* The handler of c has read all that was sent and has sent all it had to send.
Served(c) == pc[c] = "recv" /\ inbuf[c] = <<>>

Answers(c, r) == {i \in 1..Len(outbox[c]) : outbox[c][i].re = r}

\* C9: every request envelope a client sends on a connection, of any length, gets
\* exactly one response envelope: each response on a connection answers one request
\* of that connection, no request has two responses, and once the handler has read
\* all that was sent and has sent all it had to send, every request has its response.
C9_OneResponsePerRequest ==
    \A c \in Conns :
        /\ \A i \in 1..Len(outbox[c]) : outbox[c][i].re \in 1..Len(requests[c])
        /\ \A r \in 1..Len(requests[c]) : Cardinality(Answers(c, r)) <= 1
        /\ Served(c) => \A r \in 1..Len(requests[c]) : Cardinality(Answers(c, r)) = 1

PongOf(c) == [body |-> Pong, by |-> c, re |-> 1]
SentPing(c) == requests[c] = <<[text |-> "ping", pad |-> 0]>>

\* C10: a connection whose client sent ping, whatever the other connections do at
\* the same time, is sent nothing but the pong its own handler produced for that
\* ping, has been sent it once its handler is back at recv, and its client, unless
\* the daemon was shut down meanwhile, returns that pong.
C10_PongOnOwnSocket ==
    \A c \in Conns :
        SentPing(c) =>
            /\ outbox[c] \in {<<>>, <<PongOf(c)>>}
            /\ Served(c) => outbox[c] = <<PongOf(c)>>
            /\ (reply[c] # <<>> /\ running) => reply[c] = <<Pong>>

\* All the clients are connected at the same time, each has sent ping, and each has
\* been sent its pong.
C10_Witness ==
    \A c \in Conns : cpc[c] = "sent" /\ SentPing(c) /\ outbox[c] = <<PongOf(c)>>

-----------------------------------------------------------------------------
(* The command processor's claims *)

LastLike == likeLog[Len(likeLog)]

\* C11: 'like this' while the player reports a playing track, the store executing
\* the add: when the artist was no favorite it becomes one, in one more row, and the
\* answer is the 'added' message; when it was one (as for a second identical command
\* with the same now-playing state) the answer is the 'already in your favorites'
\* message and the number of favorite rows is unchanged.
C11_LikeThis ==
    /\ (likeLog # <<>> /\ LastLike.artist # <<>> /\ LastLike.ok) =>
          /\ IsFavorite(favorite_artists, LastLike.artist[1])
          /\ ~LastLike.was_favorite =>
                /\ LastLike.message = <<"Added ", LastLike.artist[1], " to your favorites!">>
                /\ LastLike.rows_after = LastLike.rows_before + 1
          /\ LastLike.was_favorite =>
                /\ LastLike.message =
                      <<"i ", LastLike.artist[1], " is already in your favorites">>
                /\ LastLike.rows_after = LastLike.rows_before
    /\ (/\ Len(likeLog) = 2
        /\ likeLog[1].artist # <<>> /\ likeLog[1].ok
        /\ likeLog[2].artist = likeLog[1].artist /\ likeLog[2].ok) =>
          /\ likeLog[2].message = <<"i ", likeLog[2].artist[1], " is already in your favorites">>
          /\ likeLog[2].rows_after = likeLog[2].rows_before

\* Two 'like this' commands with the same track playing: the first added the artist,
\* the second found it.
C11_Witness ==
    /\ Len(likeLog) = 2
    /\ likeLog[1].artist = <<<<"Nine Inch Nails">>>> /\ likeLog[1].ok
    /\ ~likeLog[1].was_favorite
    /\ likeLog[1].message = <<"Added ", <<"Nine Inch Nails">>, " to your favorites!">>
    /\ likeLog[2] = [likeLog[1] EXCEPT
                        !.was_favorite = TRUE,
                        !.rows_before = likeLog[1].rows_after,
                        !.message = <<"i ", <<"Nine Inch Nails">>,
                                      " is already in your favorites">>]

-----------------------------------------------------------------------------
(* The daemon lifecycle's claims *)

\* Daemon j has bound the path at some time.
HasBound(j) == at[j] \in {"serving", "stopping", "stopped", "exited", "crashed"}

\* C12: after the shutdown of a daemon has completed (stop has returned) its running
\* flag is false, its listener is closed and the path does not name its socket; when
\* no other daemon has bound the path, the path does not exist and an is_running
\* made after the shutdown reports not-running.
C12_ShutdownRemovesEndpoint ==
    \A i \in Stopped :
        /\ ~flag[i]
        /\ ~listening[i]
        /\ endpoint # <<i>>
        /\ (\A j \in Instances \ {i} : ~HasBound(j)) =>
              /\ endpoint = <<>>
              /\ (lastProbe # <<>> /\ i \in lastProbe[1].stopped) => ~lastProbe[1].result

\* A daemon has shut down, and another process has probed after that.
C12_Witness ==
    \E i \in Stopped :
        /\ \A j \in Instances \ {i} : ~HasBound(j)
        /\ lastProbe # <<>>
        /\ i \in lastProbe[1].stopped
        /\ lastProbe[1].by # i

\* C14: a daemon started while the path exists and nobody listens on it, left by
\* daemons that were killed (and no other daemon is started): its probe is refused and does not report a
\* running daemon, the path is removed before start, and the daemon binds the path
\* and runs; its start does not fail.
C14_StaleEndpointReclaimed ==
    /\ (lastProbe # <<>> /\ lastProbe[1].stale) => ~lastProbe[1].result
    /\ \A i \in Instances :
          (/\ sawStale[i] # <<>>
           /\ \A j \in Instances \ {i} : at[j] = "off" \/ j \in sawStale[i][1]) =>
             /\ at[i] \notin {"exited_running", "failed", "exited_nobind"}
             /\ at[i] \in {"starting", "binding"} => endpoint = <<>>
             /\ at[i] = "serving" => (endpoint = <<i>> /\ listening[i] /\ flag[i])

\* A daemon was killed, and the next one, started over the path it left, runs.
C14_Witness ==
    \E i \in Instances :
        /\ sawStale[i] # <<>>
        /\ at[i] = "serving"
        /\ endpoint = <<i>>
        /\ \A j \in Instances \ {i} : at[j] = "crashed"

\* C15: as long as no daemon is stopping, at most one daemon is running, and the
\* path names the socket of the daemon that runs: no starting daemon removes or
\* rebinds it.
C15_SingleInstance ==
    (\A j \in Instances : at[j] \notin {"stopping", "stopped", "exited"}) =>
        /\ Cardinality({i \in Instances : at[i] = "serving"}) <= 1
        /\ \A i \in Instances : at[i] = "serving" => endpoint = <<i>>

\* C13: once stop has returned the poller performs no enrichment and no store write,
\* also when a pass of its loop was in progress at the moment of the shutdown.
C13_StopStopsPoller == ~pollAfterStop

-----------------------------------------------------------------------------
(* The playlist tables' claims *)

KnownPlaylist(spotify_id) == \E p \in Range(playlists) : p.spotify_id = spotify_id

\* C16: a store_playlist_tracks for an external playlist id that no stored playlist
\* has returns failure and leaves every row of playlists and of playlist_tracks as
\* it was.
C16_UnknownPlaylistRefused ==
    [][\A sid \in SpotifyIds :
          (trackCall' # trackCall /\ trackCall'.spotify_id = sid /\ ~KnownPlaylist(sid))
             => /\ ~trackCall'.result
                /\ playlist_tracks' = playlist_tracks
                /\ playlists' = playlists]_vars

\* A call for an unknown playlist has returned failure while another playlist has tracks.
C16_Witness ==
    /\ trackCall.op = "store_playlist_tracks"
    /\ ~KnownPlaylist(trackCall.spotify_id)
    /\ ~trackCall.result
    /\ playlists # <<>>
    /\ playlist_tracks # {}

TrackIdsOf(db_playlist_id) ==
    {r.spotify_track_id : r \in {x \in playlist_tracks : x.playlist_id = db_playlist_id}}

CompleteIds(db_playlist_id) ==
    IF \E c \in complete : c[1] = db_playlist_id
    THEN (CHOOSE c \in complete : c[1] = db_playlist_id)[2]
    ELSE {}

\* C17: the tracks stored for a playlist are at every moment the whole of the last
\* listing a store_playlist_tracks committed for it, never a part of one: a call
\* that fails part-way leaves the previous listing in full, and a reader gets the
\* whole previous or the whole new listing, also while a writer is at work.
C17_TracksReplacedAtomically ==
    /\ \A pid \in {r.playlist_id : r \in playlist_tracks} \cup {c[1] : c \in complete} :
          TrackIdsOf(pid) = CompleteIds(pid)
    /\ (trackRead.op = "get_playlist_tracks" /\ trackRead.ok /\ trackRead.playlist # <<>>)
          => Range(trackRead.result) = {<<id>> : id \in CompleteIds(trackRead.playlist[1].id)}

\* A reader has returned a stored listing while a writer had deleted it and
\* inserted a part of the next one.
C17_Witness ==
    /\ txn # <<>>
    /\ txn[1].position > 0
    /\ txn[1].position < Len(txn[1].tracks)
    /\ txn[1].rows # playlist_tracks
    /\ trackRead.op = "get_playlist_tracks"
    /\ Len(trackRead.result) = 2

\* C18: every row of playlist_tracks has the rowid of exactly one stored playlist,
\* and no playlist has two rows for one external track id.
C18_TrackRowsBelong ==
    /\ \A r \in playlist_tracks :
          Cardinality({p \in Range(playlists) : p.id = r.playlist_id}) = 1
    /\ \A r1, r2 \in playlist_tracks :
          (r1.playlist_id = r2.playlist_id /\ r1.spotify_track_id = r2.spotify_track_id)
             => r1 = r2

-----------------------------------------------------------------------------
(* The relationship table's claims *)

\* C19: the table holds at most one row per key (source_type, source_name,
\* source_artist, target_type, target_name, target_artist, relationship_type), also
\* when an artist is absent, and after a successful add_relationship the row of its
\* key carries the call's confidence, notes and added_by.
C19_OneRowPerKey ==
    /\ \A i, j \in 1..Len(musical_relationships) :
          RelationshipKey(musical_relationships[i]) = RelationshipKey(musical_relationships[j])
             => i = j
    /\ (relAdd.op = "add_relationship" /\ relAdd.result)
          => \A i \in 1..Len(musical_relationships) :
                RelationshipKey(musical_relationships[i]) = RelationshipKey(relAdd.row)
                   => /\ musical_relationships[i].confidence = relAdd.row.confidence
                      /\ musical_relationships[i].notes = relAdd.row.notes
                      /\ musical_relationships[i].added_by = relAdd.row.added_by

IsRelated(e, entity, direction) ==
    /\ e.direction = direction
    /\ e.related_type = entity.type
    /\ e.related_name = entity.name
    /\ e.related_artist = entity.artist
    /\ e.relationship_type = relAdd.row.relationship_type
    /\ e.confidence = relAdd.row.confidence
    /\ e.notes = relAdd.row.notes
    /\ e.added_by = relAdd.row.added_by

\* C20: after a successful add_relationship(S -> T), a get_relationships_for_entity
\* for S returns the edge as 'outgoing' with T as the related entity, and one for T
\* returns it as 'incoming' with S as the related entity.
C20_QueryableBothWays ==
    (relAdd.op = "add_relationship" /\ relAdd.result
        /\ relQuery.op = "get_relationships_for_entity" /\ relQuery.ok)
       => /\ relQuery.entity = relAdd.source
             => \E e \in Range(relQuery.result) : IsRelated(e, relAdd.target, "outgoing")
          /\ relQuery.entity = relAdd.target
             => \E e \in Range(relQuery.result) : IsRelated(e, relAdd.source, "incoming")

\* The target of the edge just added was queried and has another edge as well.
C20_Witness ==
    /\ relAdd.op = "add_relationship"
    /\ relAdd.result
    /\ relQuery.op = "get_relationships_for_entity"
    /\ relQuery.ok
    /\ relQuery.entity = relAdd.target
    /\ Len(relQuery.result) = 2
    /\ \E e \in Range(relQuery.result) : e.direction = "outgoing"

-----------------------------------------------------------------------------
(* The daemon's start and its polling loop: further claims *)

\* C27: a daemon whose store could not be opened, or whose bind failed, has left
\* start with failure: its running flag is not set and it does not listen.
C27_StartupFails ==
    \A i \in Instances :
       /\ storeOpened[i] = <<FALSE>>
             => (at[i] = "exited_noagent" /\ ~flag[i] /\ ~listening[i])
       /\ at[i] = "exited_nobind" => (~flag[i] /\ ~listening[i])

\* C25: while the daemon is running, after every pass of the polling loop, also one
\* whose query or whose store writes failed, a further pass eventually starts.
C25_PollerKeepsPolling ==
    (running /\ pollQueried = <<>>) ~> (pollQueried # <<>> \/ ~running)

\* A pass has started after a pass that met an error of the player.
C25_Witness ==
    /\ running
    /\ pollCur # <<>>
    /\ pollCur[1].status = ErrorText
    /\ pollQueried # <<>>

\* C26: when a pass has detected a track change and its enrichment has not
\* finished, the next pass of the polling loop can start.
C26_EnrichmentAsynchronous ==
    (running /\ pollQueried # <<>> /\ HasTrackChanged(pollQueried[1], last_known_track))
       => ENABLED PollQuery

-----------------------------------------------------------------------------
(* The command processor: claims *)

\* The first intent of IntentOrder whose predicate holds of a command in lower case.
FirstMatch(c) ==
    IntentOrder[CHOOSE i \in 1..Len(IntentOrder) :
                   /\ Predicate(IntentOrder[i], c)
                   /\ \A k \in 1..(i - 1) : ~Predicate(IntentOrder[k], c)]

\* C21: handle_command runs one intent, the first in the order of the chain whose
\* predicate holds of the command in lower case; 'play some mellow music' runs the
\* tag-based play and 'play me some Enya' the artist collection.
C21_FirstMatchingIntent ==
    cmd.op = "handle_command" =>
        /\ cmd.intent = FirstMatch(lower(cmd.command))
        /\ cmd.command = "play some mellow music" => cmd.intent = "play_by_tags"
        /\ cmd.command = "play me some Enya" => cmd.intent = "play_artist_collection"

\* A command that two predicates match has run the earlier intent.
C21_Witness ==
    /\ cmd.op = "handle_command"
    /\ cmd.command = "play some mellow music"
    /\ Predicate("play_artist_collection", lower(cmd.command))
    /\ cmd.intent = "play_by_tags"

\* No predicate of the chain holds of a command in lower case.
NoPredicate(c) == \A i \in 1..(Len(IntentOrder) - 1) : ~Predicate(IntentOrder[i], c)

\* C22: a command that no predicate matches returns the help message, changes no
\* table of the store and calls neither the player nor a method that writes.
C22_UnmatchedGivesHelp ==
    cmd.op = "handle_command" /\ NoPredicate(lower(cmd.command)) =>
        /\ cmd.message = HelpMessage
        /\ ~cmd.changed
        /\ Range(cmd.calls) \cap (PlayerCalls \cup StoreWrites \cup Range(QueryCalls)) = {}

\* 'hello' has been answered with the help message.
C22_Witness ==
    /\ cmd.op = "handle_command"
    /\ cmd.command = "hello"
    /\ NoPredicate(lower(cmd.command))
    /\ cmd.message = HelpMessage

\* C23: handle_command returns a string and raises nothing, whatever the command
\* and whatever the player, the catalog and the store do.
C23_ReturnsAndNeverRaises ==
    cmd.op = "handle_command" => ~cmd.raised /\ cmd.message # <<>>

\* A command whose query of the player got malformed output has returned, and so
\* has one whose store call failed.
C23_Witness ==
    /\ cmd.op = "handle_command"
    /\ "get_current_track" \in cmd.failed
    /\ ~cmd.raised
    /\ cmd.message # <<>>

C24_StatusCarriesOutcome ==
    routed.op = "request" /\ routed.passed # <<>> =>
        /\ cmd.message[1] \in {"error", "help"} => routed.response.status = "error"
        /\ routed.response.status = "success" => cmd.message[1] \in {"ok", "info"}

\* C29: ping, status and shutdown are answered without handle_command; the text
\* after 'music:' is given to handle_command once; every other command is answered
\* with the error 'Unknown command' without handle_command and without the store.
C29_RequestRouting ==
    routed.op = "request" =>
        IF routed.command \in {"ping", "status", "shutdown"}
        THEN routed.passed = <<>> /\ "handle_command" \notin Range(routed.calls)
        ELSE IF StartsWith(routed.command, "music:")
        THEN /\ routed.passed = <<SubSeq(routed.command, 7, Len(routed.command))>>
             /\ cmd.op = "handle_command"
             /\ cmd.command = routed.passed[1]
             /\ cmd.n = routed.n
        ELSE /\ routed.response.status = "error"
             /\ routed.response.message[1] = "Unknown command: "
             /\ routed.passed = <<>>
             /\ routed.calls = <<>>
             /\ ~routed.changed

\* C28: every malformed request envelope is answered with the error response
\* 'Invalid JSON', the handler keeps the connection open, and a valid request sent
\* after it on the same connection is answered as a request on a new connection is.
C28_MalformedThenValid ==
    \A c \in Conns :
       /\ \A n \in 1..Len(outbox[c]) :
             /\ requests[c][n].payload # "envelope" => outbox[c][n].body = InvalidJson
             /\ (n > 1 /\ requests[c][n - 1].payload # "envelope"
                       /\ requests[c][n].payload = "envelope")
                   => /\ outbox[c][n].re = n
                      /\ \E result \in StatusOutputs, ok \in BOOLEAN :
                            outbox[c][n].body =
                               ProcessCommand(requests[c][n], get_current_track(result),
                                              ok)
       /\ (/\ ClientOpen(c)
           /\ outbox[c] # <<>>
           /\ requests[c][Len(outbox[c])].payload # "envelope")
             => pc[c] # "closed"

-----------------------------------------------------------------------------
(* The intents of the command processor: further claims *)

\* C36: a like command answers 'already in your favorites' only when the artist
\* was a favorite before it, and a like command whose store write failed does not
\* give that answer.
C36_AlreadyOnlyWhenFavorite ==
    \A i \in 1..Len(likeLog) :
       (/\ likeLog[i].artist # <<>>
        /\ likeLog[i].message = LikeMessage(likeLog[i].artist[1], FALSE))
          => (likeLog[i].was_favorite /\ likeLog[i].ok)

\* C32: a call of play_track runs the play script once and never again, queries
\* the player once after a script that did not fail and not at all after one that
\* failed, and returns True exactly when the script did not fail and that one
\* query reports a playing track.
C32_PlayOnceVerifyOnce ==
    playCall.n > 0 =>
        /\ playCall.issued <= 1
        /\ playCall.verified <= 1
        /\ playCall.at = "idle" =>
              /\ playCall.issued = 1
              /\ playCall.verified = (IF "X" \in Range(playCall.script[1]) THEN 0 ELSE 1)
              /\ playCall.returned[1] <=>
                    /\ "X" \notin Range(playCall.script[1])
                    /\ playCall.current # <<>>
                    /\ playCall.current[1].status = PlayingStatus

\* A call whose script did not fail has returned False after its one query found
\* nothing playing.
C32_Witness ==
    /\ playCall.n > 0
    /\ playCall.at = "idle"
    /\ playCall.script = <<<<>>>>
    /\ playCall.verified = 1
    /\ playCall.returned = <<FALSE>>

\* C38: a command with 'unpause' and without 'resume' in it runs the resume intent.
C38_UnpauseResumes ==
    (/\ cmd.op = "handle_command"
     /\ In("unpause", lower(cmd.command))
     /\ ~In("resume", lower(cmd.command)))
       => cmd.intent = "resume"

\* C39: the command 'lyrics', given while a track is playing, runs the lyrics
\* intent, which calls get_track_lyrics for that track.
C39_LyricsOfCurrentTrack ==
    (/\ cmd.op = "handle_command"
     /\ cmd.command = "lyrics")
       => /\ cmd.intent = "lyrics"
          /\ (cmd.used # <<>> /\ IsPlayingTrack(cmd.used[1]))
                => "get_track_lyrics" \in Range(cmd.calls)

\* C37: the command 'like john hiatt' runs the like intent, and with a store that
\* takes the write john hiatt is a favorite afterwards.
C37_LikeByNameOnly ==
    (/\ cmd.op = "handle_command"
     /\ cmd.command = "like john hiatt")
       => /\ cmd.intent = "like"
          /\ "add_favorite_artist" \in Range(cmd.calls)

\* C40: 'find songs tagged T' lists every track that a 'tag this as T' command has
\* tagged with T (a row of the tags table written by the user for a track), the
\* other rows of the table being what they may.
C40_TagRoundTrip ==
    (cmd.op = "handle_command" /\ cmd.intent = "songs_tagged") =>
        \A i \in 1..Len(tags) :
           (/\ tags[i].entity_type = "track"
            /\ tags[i].added_by = "user"
            /\ tags[i].tag_value =
                  Text(Arguments("songs_tagged", lower(cmd.command)).tag))
              => /\ cmd.message[1] = "ok"
                 /\ Len(cmd.message) = 3
                 /\ tags[i].entity_name \in Range(cmd.message[3])

(* The poller: one enrichment for one stay on a track *)

\* C33: when a poll cycle observes the playing (track, artist) pair that the cycle
\* two before it observed, and the query of the cycle between them failed, the later
\* cycle triggers no enrichment: one stay on a track is enriched at most once.
C33_OncePerStay ==
    (/\ pollEarlier # <<>>
     /\ pollPrev # <<>>
     /\ pollCur # <<>>
     /\ IsPlaying(pollEarlier[1])
     /\ pollPrev[1].status = ErrorText
     /\ IsPlaying(pollCur[1])
     /\ TrackPair(pollEarlier[1]) = TrackPair(pollCur[1]))
        => ~pollTriggered

(* Playlists stored again *)

\* C34: a store_playlist that commits for the external id of a playlist already
\* stored leaves that playlist's tracks as they were: get_playlist_tracks gives the
\* same tracks in the same order before and after it.
C34_RestoreKeepsTracks ==
    [][\A sid \in SpotifyIds :
          (/\ playlistSeq' # playlistSeq
           /\ KnownPlaylist(sid)
           /\ playlists'[Len(playlists')].spotify_id = sid)
             => SelectPlaylistTracks(playlist_tracks', playlists', sid, DefaultLimit)
                   = SelectPlaylistTracks(playlist_tracks, playlists, sid, DefaultLimit)]_vars

(* The daemon's stop and the socket path *)

\* C35: no step of a daemon's stop (the call of the shutdown handler or of the
\* signal handler, or the second call of start's finally block) removes the path
\* while it names the socket that another daemon has bound and listens on.
C35_StopRemovesOwnEndpoint ==
    [][\A i \in Instances :
          (/\ at[i] \in {"stopping", "stopped"}
           /\ at'[i] # at[i]
           /\ endpoint # <<>>
           /\ endpoint # <<i>>
           /\ listening[endpoint[1]])
             => endpoint' = endpoint]_vars

(* Clients that go away in the middle of a request *)

\* The response to shutdown has been sent to a client.
ShutdownAnswered ==
    \E c \in Conns : \E i \in 1..Len(outbox[c]) :
        outbox[c][i].body.message = <<"shutting down">>

\* The step ends the handler of c, whose client is gone.
EndsHandlerOf(c) == pc[c] \in {"recv", "send"} /\ pc'[c] = "closed" /\ ~ClientOpen(c)

\* C31: the step that ends the handler of a client that went away changes nothing
\* else: the running flag, the other handlers, the poller and the rows of the store
\* stay as they were.  The running flag is cleared by an answered shutdown only, and
\* while it is set the accept loop takes every waiting connection and the poller
\* starts its next pass.
C31_DisconnectEndsOwnHandler ==
    /\ [][\A c \in Conns :
             (EndsHandlerOf(c) /\ ~ShutdownAnswered')
                => /\ running' = running
                   /\ \A d \in Conns \ {c} : pc'[d] = pc[d] /\ outbox'[d] = outbox[d]
                   /\ pollerVars' = pollerVars
                   /\ favorite_artists' = favorite_artists
                   /\ tags' = tags]_vars
    /\ [](/\ ~running => ShutdownAnswered
          /\ running =>
                /\ \A d \in Conns : (cpc[d] # "start" /\ pc[d] = "none") => ENABLED Accept(d)
                /\ pollQueried = <<>> => ENABLED PollQuery)

\* The handler of a client that went away after 'like this' has ended, the favorite
\* it wrote is stored, the daemon runs, another client has been answered, and the
\* poller has made a pass since.
C31_Witness ==
    \E c, d \in Conns :
        /\ c # d
        /\ Disconnected(c)
        /\ requests[c] = <<LikeRequest>>
        /\ pc[c] = "closed"
        /\ favorite_artists # <<>>
        /\ running
        /\ reply[d] # <<>>
        /\ reply[d][1].status = "success"
        /\ pollCur # <<>>

====
